---- MODULE Spec2Model ----
(***************************************************************************)
(* Model of the OpenCrank agent loop (src/src/core/agent.cpp, Agent::run)  *)
(* together with its token-limit recovery (Agent::try_truncate_history).   *)
(* One behaviour is one call of Agent::run: Start is the code up to the    *)
(* while loop, and each further step is one loop iteration, that is one    *)
(* ai->chat call with everything the loop body does with its outcome,      *)
(* the loop test that follows and, when the test fails, the pause return.  *)
(***************************************************************************)
EXTENDS Integers, Sequences, FiniteSets, TLC

(* ---- bounds of the model ---------------------------------------------- *)
MaxInitLen == 7
MaxIterations == 3
MaxErrors == 2
MaxCalls == 2

(* ---- program constants ------------------------------------------------ *)
max_token_limit_retries == 2
StrategyTwoMinSize == 6
TailWalkBack == 4

VARIABLES pc, config, history, history_before, initial_history_size,
          consecutive_errors, token_limit_retries, recent_tool_calls,
          result, calls, outcomes, tool_results,
                   chat_log, response,
          trunc, ctx, sandbox, app, chunker, parse, memory,
          tasks, session

(* the state of one Agent::run                                              *)
run_vars == <<pc, config, history, history_before, initial_history_size,
              consecutive_errors, token_limit_retries, recent_tool_calls,
              result, calls, outcomes, tool_results,
                   chat_log, response>>

(* the state of the other components: the tool-result message under         *)
(* truncation, the context manager and the sandbox                          *)
more_vars == <<app, chunker, parse, memory, tasks, session>>

aux_vars == <<trunc, ctx, sandbox, more_vars>>

old_vars == <<run_vars, trunc, ctx, sandbox>>

vars == <<pc, config, history, history_before, initial_history_size,
          consecutive_errors, token_limit_retries, recent_tool_calls,
          result, calls, outcomes, tool_results,
                   chat_log, response,
          trunc, ctx, sandbox, app, chunker, parse, memory,
          tasks, session>>

(* ---- messages ---------------------------------------------------------- *)
(* A ConversationMessage is its role and its content.  The content is kept  *)
(* as what the code looks at: whether it contains "[TOOL_RESULT", whether   *)
(* it contains "[/TOOL_RESULT]", whether it is longer than 10000            *)
(* characters, and which text it is (text, id); cut says that the content   *)
(* was replaced by the shortened tool result of strategy 1.                 *)
Msg(role, text, id, tr, closed, big, cut) ==
    [role |-> role, text |-> text, id |-> id, tr |-> tr, closed |-> closed,
     big |-> big, cut |-> cut]

UserMessage == Msg("user", "user_message", 0, FALSE, FALSE, FALSE, FALSE)
AssistantReply == Msg("assistant", "reply", 0, FALSE, FALSE, FALSE, FALSE)
GoadMessage == Msg("user", "goad", 0, FALSE, FALSE, FALSE, FALSE)
ToolResultsMessage == Msg("user", "tool_results", 0, TRUE, TRUE, FALSE, FALSE)
BridgeMessage == Msg("assistant", "bridge", 0, FALSE, FALSE, FALSE, FALSE)

(* ---- is_token_limit_error ---------------------------------------------- *)
(* An error text is the set of the patterns it contains (lower-cased).      *)
ErrorTexts ==
    { {}, {"exceeds"}, {"context"}, {"exceeds", "token"},
      {"exceeds", "context", "context length"}, {"too long"},
      {"context", "maximum context"}, {"token", "token limit"},
      {"context", "context size"} }

is_token_limit_error(error) ==
    \/ ("exceeds" \in error /\ ("context" \in error \/ "token" \in error))
    \/ "too long" \in error
    \/ "context length" \in error
    \/ "maximum context" \in error
    \/ "token limit" \in error
    \/ "context size" \in error

(* ---- try_truncate_history ---------------------------------------------- *)
(* Strategy 1: every user message that contains "[TOOL_RESULT", is longer   *)
(* than 10000 characters and contains "[/TOOL_RESULT]" is replaced by its   *)
(* shortened form (at most 2000 characters of body, so no longer big).      *)
IsLargeToolResult(m) == m.role = "user" /\ m.tr /\ m.big /\ m.closed

TruncateMessage(m) ==
    IF IsLargeToolResult(m) THEN [m EXCEPT !.big = FALSE, !.cut = TRUE] ELSE m

TruncateLarge(h) == [i \in 1..Len(h) |-> TruncateMessage(h[i])]

(* Strategy 2: index (1-based) of the message the kept tail starts at: the  *)
(* last user message among the last four, else the last message.            *)
RECURSIVE LastStart(_, _)
LastStart(h, back) ==
    IF back > TailWalkBack \/ back >= Len(h) THEN Len(h)
    ELSE IF h[Len(h) - back + 1].role = "user" THEN Len(h) - back + 1
    ELSE LastStart(h, back + 1)

RECURSIVE AppendAlternating(_, _, _, _)
AppendAlternating(h, i, acc, last_role) ==
    IF i > Len(h) THEN acc
    ELSE IF h[i].role = last_role THEN AppendAlternating(h, i + 1, acc, last_role)
    ELSE AppendAlternating(h, i + 1, Append(acc, h[i]), h[i].role)

(* first message and last four messages kept as they are                     *)
ReduceHistory_keep_last_four(h) == <<h[1]>> \o SubSeq(h, Len(h) - 3, Len(h))

ReduceHistory(h) ==
    LET head == IF h[1].role = "user" THEN <<h[1], BridgeMessage>> ELSE <<h[1]>>
    IN AppendAlternating(h, LastStart(h, 1), head, head[Len(head)].role)

try_truncate_history(h) ==
    IF Len(h) < 3 THEN [ok |-> FALSE, history |-> h]
    ELSE IF \E i \in 1..Len(h) : IsLargeToolResult(h[i])
         THEN [ok |-> TRUE, history |-> TruncateLarge(h)]
    ELSE IF Len(h) > StrategyTwoMinSize
         THEN [ok |-> TRUE, history |-> ReduceHistory(h)]
    ELSE [ok |-> FALSE, history |-> h]

(* push_back written as an assignment of the new element                     *)
push_back_assign(h, m) == <<m>>

(* std::vector::push_back                                                   *)
push_back(h, m) == Append(h, m)

(* rollback: while (history.size() > initial_history_size) pop_back()       *)
Rollback(h, n) == IF Len(h) > n THEN SubSeq(h, 1, n) ELSE h

(* ---- tool calls --------------------------------------------------------- *)
(* A ParsedToolCall: tool_name, params, raw_content and valid.               *)
Call(tool, params, raw, valid) ==
    [tool_name |-> tool, params |-> params, raw_content |-> raw, valid |-> valid]

ToolCalls ==
    { Call("echo", "a", "raw_echo_a", TRUE),
      Call("finish", "a", "raw_finish_a", TRUE) }

(* Json::dump of the params object                                           *)
dump(params) == <<"json", params>>

(* dedup_key = tool_name + ":" + (valid ? params.dump() : raw_content)       *)
dedup_key(call) ==
    <<call.tool_name,
      IF call.valid THEN dump(call.params) ELSE <<"raw", call.raw_content>> >>

(* execute_tool: the registered executors; "finish" asks the loop to stop.   *)
execute_tool(call) ==
    [success |-> TRUE, should_continue |-> call.tool_name # "finish"]

RECURSIVE SeqsUpTo(_, _)
SeqsUpTo(S, n) ==
    IF n = 0 THEN { <<>> }
    ELSE LET shorter == SeqsUpTo(S, n - 1)
         IN shorter \cup { Append(q, x) : q \in shorter, x \in S }

(* A successful completion, as what the loop reads from its text: the tool  *)
(* calls parse_tool_calls finds in it, and for a text without calls whether  *)
(* it is classified as a question and whether it holds an intent phrase.     *)
Replies ==
    { [calls |-> <<>>, question |-> q, intent |-> i, read |-> TRUE] :
        q \in BOOLEAN, i \in BOOLEAN }
    \cup { [calls |-> cs, question |-> FALSE, intent |-> FALSE, read |-> TRUE] :
             cs \in SeqsUpTo(ToolCalls, MaxCalls) \ { <<>> } }

parse_tool_calls(reply) == reply.calls

(* the within-reply guard left out                                           *)
duplicate_in_response_never(seen, key) == FALSE

(* seen_in_response.count(dedup_key)                                         *)
duplicate_in_response(seen, key) == key \in seen

(* the cross-iteration guard comparing with the current iteration            *)
repeats_previous_same_iter(recent, key, iter) ==
    key \in DOMAIN recent /\ recent[key] = iter

(* the cross-iteration guard firing on any earlier iteration                 *)
repeats_previous_any(recent, key, iter) == key \in DOMAIN recent

(* the key was recorded in the immediately previous iteration                *)
repeats_previous(recent, key, iter) ==
    key \in DOMAIN recent /\ recent[key] = iter - 1

(* recent_tool_calls[dedup_key] = result.iterations                          *)
record_call(recent, key, iter) ==
    [k \in DOMAIN recent \cup {key} |-> IF k = key THEN iter ELSE recent[k]]

(* should_continue overwritten by the result of every executed tool          *)
update_should_continue_last(cont, tool_result) == tool_result.should_continue

(* if (!tool_result.should_continue) should_continue = false                 *)
update_should_continue(cont, tool_result) ==
    IF ~tool_result.should_continue THEN FALSE ELSE cont

IsMember(x, q) == \E i \in 1..Len(q) : q[i] = x

(* a result block written in front of the blocks already there              *)
append_result_in_front(results, call, body) ==
    <<[tool_name |-> call.tool_name, body |-> body]>> \o results

(* results_oss << "[TOOL_RESULT tool=" << call.tool_name ...: one block, the  *)
(* note of a skipped call or the formatted result of an executed one         *)
append_result(results, call, body) ==
    Append(results, [tool_name |-> call.tool_name, body |-> body])

(* std::ostringstream results_oss, and the calls handed to execute_tool      *)
NoToolResults == [results |-> << >>, executed |-> << >>]

(* The for loop over the parsed calls of one reply.  st carries the locals   *)
(* seen_in_response, recent_tool_calls, should_continue, the two counters of *)
(* the result and, per call, what was written to results_oss.                *)
RECURSIVE ProcessCalls(_, _, _, _)
ProcessCalls(cs, i, iter, st) ==
    IF i > Len(cs) THEN st
    ELSE
      LET call == cs[i]
          key == dedup_key(call)
      IN IF duplicate_in_response(st.seen, key)
         THEN ProcessCalls(cs, i + 1, iter,
                [st EXCEPT !.outs = Append(@, "duplicate_in_response"),
                           !.results = append_result(@, call, "duplicate")])
         ELSE IF repeats_previous(st.recent, key, iter)
         THEN ProcessCalls(cs, i + 1, iter,
                [st EXCEPT !.seen = @ \cup {key},
                           !.outs = Append(@, "previous_iteration"),
                           !.results = append_result(@, call, "already_made")])
         ELSE
           LET tool_result == execute_tool(call)
           IN ProcessCalls(cs, i + 1, iter,
                [st EXCEPT
                   !.seen = @ \cup {key},
                   !.recent = record_call(@, key, iter),
                   !.made = @ + 1,
                   !.used = IF IsMember(call.tool_name, @) THEN @
                            ELSE Append(@, call.tool_name),
                   !.cont = update_should_continue(@, tool_result),
                   !.outs = Append(@, "executed"),
                   !.executed = Append(@, call),
                   !.results = append_result(@, call, "formatted")])

(* ---- Agent::run --------------------------------------------------------- *)
EmptyResult ==
    [success |-> FALSE, paused |-> FALSE, error |-> "", final_response |-> "",
     iterations |-> 0, tool_calls_made |-> 0, tools_used |-> <<>>,
     pause_message |-> {}]

PauseOptions == {"/continue", "/continue <N>", "/continue no-stop", "/cancel"}

(* the pause return without result.paused = true                             *)
PauseResult_unflagged(res) ==
    [res EXCEPT !.success = FALSE,
                !.pause_message = PauseOptions, !.final_response = "pause_message"]

(* the code after the while loop                                             *)
PauseResult(res) ==
    [res EXCEPT !.success = FALSE, !.paused = TRUE,
                !.pause_message = PauseOptions, !.final_response = "pause_message"]

(* the loop test written with <= instead of <                                *)
Continue_off_by_one(res) ==
    IF res.iterations <= config.max_iterations
    THEN pc' = "loop" /\ result' = res
    ELSE pc' = "done" /\ result' = PauseResult(res)

(* back to the loop test: either another iteration follows or the run pauses *)
Continue(res) ==
    IF res.iterations < config.max_iterations
    THEN pc' = "loop" /\ result' = res
    ELSE pc' = "done" /\ result' = PauseResult(res)

(* goads whenever the reply asks no question                                 *)
should_goad_without_intent(indicates_tool_intent, is_asking_question, res) ==
    /\ ~is_asking_question
    /\ res.iterations < config.max_iterations

(* the goad condition without the test for a remaining iteration            *)
should_goad_always(indicates_tool_intent, is_asking_question, res) ==
    indicates_tool_intent /\ ~is_asking_question

(* indicates_tool_intent && !is_asking_question                              *)
(*   && result.iterations < config.max_iterations                            *)
should_goad(indicates_tool_intent, is_asking_question, res) ==
    /\ indicates_tool_intent
    /\ ~is_asking_question
    /\ res.iterations < config.max_iterations

(* no completion was read in this iteration                                  *)
NoResponse == [calls |-> << >>, question |-> FALSE, intent |-> FALSE, read |-> FALSE]

(* one retry too many                                                        *)
may_retry_once_more(retries) == retries <= max_token_limit_retries + 1

(* token_limit_retries <= max_token_limit_retries                            *)
may_retry(retries) == retries <= max_token_limit_retries

(* > instead of >=                                                           *)
errors_saturated_strict(errors) == errors > config.max_consecutive_errors

(* consecutive_errors >= config.max_consecutive_errors                       *)
errors_saturated(errors) == errors >= config.max_consecutive_errors

(* ======================================================================== *)
(* The text of a tool-result message, and strategy 1 applied to it          *)
(* ======================================================================== *)
MaxBlocks == 2

(* msg.content.size() > 10000                                               *)
LargeContentSize == 10000

(* substr(content_start, 2000)                                              *)
KeptChars == 2000

ToolNames == {"shell", "read"}
NameSize(tool) == IF tool = "shell" THEN 5 ELSE 4

(* lengths of the text a tool result puts between its two tags              *)
BodySizes == {100, 2000, 2001, 12000}

(* One block of a tool-result message:                                      *)
(*   [TOOL_RESULT tool=<tool> success=<success>]\n                          *)
(*   <notice line, if notice> <body characters> <marker, if marker>         *)
(*   \n[/TOOL_RESULT]                                                       *)
Block(tool, success, body, notice, marker) ==
    [tool |-> tool, success |-> success, body |-> body, notice |-> notice,
     marker |-> marker]

(* format_tool_result: header, then the output or "Error: <error>" (body     *)
(* characters in all), then the closing tag                                 *)
format_tool_result(tool, success, body) == Block(tool, success, body, FALSE, FALSE)

(* "[TOOL_RESULT tool=" name " success=" "true"|"false" "]\n"               *)
HeaderSize(b) == 18 + NameSize(b.tool) + 9 + (IF b.success THEN 4 ELSE 5) + 2

(* header, body, "\n[/TOOL_RESULT]", and the "\n" results_oss adds           *)
BlockSize(b) == HeaderSize(b) + b.body + 15 + 1

RECURSIVE ContentSize(_)
ContentSize(c) == IF c = << >> THEN 0 ELSE BlockSize(Head(c)) + ContentSize(Tail(c))

Min(a, b) == IF a <= b THEN a ELSE b

(* Strategy 1 on the content of one user message that holds tool results:   *)
(* result_start is the first opening tag and result_end the first closing   *)
(* tag, so the content between them is the body of the first block; the     *)
(* new content is a header with the first tool name and success=true, the   *)
(* notice line, at most 2000 characters of that body, the marker when the   *)
(* body was longer, and the closing tag.                                    *)
TruncateToolResult(c) ==
    IF c # << >> /\ ContentSize(c) > LargeContentSize
    THEN << Block(c[1].tool, TRUE, Min(c[1].body, KeptChars), TRUE,
                  c[1].body > KeptChars) >>
    ELSE c

NoMessage == [content |-> << >>, out |-> << >>, done |-> FALSE]

(* ======================================================================== *)
(* Context manager                                                          *)
(* ======================================================================== *)
MaxCtxLen == 2
MaxNesting == 2

(* size_t is an unsigned word: sizes are kept modulo the word size.  The    *)
(* model's word is narrower than the machine's and wider than every size    *)
(* the model uses.                                                          *)
SizeModulus == 1048576

(* total += 20: role tags, formatting overhead per message                  *)
MessageOverhead == 20

(* lengths of the fixed texts of build_resumed_history, generate_resume and  *)
(* build_resume_prompt                                                      *)
ResumePrefixSize == 146
ResumeSuffixSize == 95
AcknowledgmentSize == 89
ResumeTruncatedMarkerSize == 39
ResumePromptSize == 1135

(* A ConversationMessage of the context manager: its role, the size of its   *)
(* content and whether the content contains "[TOOL_RESULT".                  *)
CtxMsg(role, size, tr) == [role |-> role, size |-> size, tr |-> tr]

CtxMessages ==
    { CtxMsg("user", 100, FALSE), CtxMsg("user", 9000, FALSE),
      CtxMsg("assistant", 200, FALSE), CtxMsg("user", 5000, TRUE) }

(* ContextManagerConfig; usage_threshold is kept in hundredths              *)
CtxConfigs ==
    [usage_threshold : {50, 75, 100},
     max_context_chars : {4000, 16000},
     reserve_for_response : {4000, 20000},
     max_resume_chars : {3000},
     auto_save_memory : BOOLEAN]

RECURSIVE estimate_chars(_)
estimate_chars(messages) ==
    IF messages = << >> THEN 0
    ELSE Head(messages).size + MessageOverhead + estimate_chars(Tail(messages))

(* budget_chars = max_context_chars - reserve_for_response on size_t         *)
budget_chars(cfg) ==
    (cfg.max_context_chars - cfg.reserve_for_response) % SizeModulus

(* estimate_usage; usage_ratio is the fraction ratio[1] / ratio[2]           *)
estimate_usage(cfg, h, system_prompt) ==
    LET total == system_prompt + estimate_chars(h)
        budget == budget_chars(cfg)
        ratio == IF budget > 0 THEN <<total, budget>> ELSE <<1, 1>>
    IN [system_prompt_chars |-> system_prompt,
        history_chars |-> estimate_chars(h),
        total_chars |-> total,
        budget_chars |-> budget,
        usage_ratio |-> ratio,
        needs_resume |-> ratio[1] * 100 >= cfg.usage_threshold * ratio[2]]

needs_resume(cfg, h, system_prompt) ==
    estimate_usage(cfg, h, system_prompt).needs_resume

NoUsage ==
    [system_prompt_chars |-> 0, history_chars |-> 0, total_chars |-> 0,
     budget_chars |-> 0, usage_ratio |-> <<0, 1>>, needs_resume |-> FALSE]


(* the provider handed to the context manager: a null pointer, or a plugin   *)
(* with or without an API key, initialized or shut down                      *)
Providers ==
    { [null |-> TRUE, configured |-> FALSE, initialized |-> FALSE],
      [null |-> FALSE, configured |-> FALSE, initialized |-> FALSE],
      [null |-> FALSE, configured |-> TRUE, initialized |-> FALSE],
      [null |-> FALSE, configured |-> TRUE, initialized |-> TRUE] }

(* what the model answers to a request: failure, or a content of some size   *)
Completions ==
    { [success |-> FALSE, content |-> 0], [success |-> TRUE, content |-> 0],
      [success |-> TRUE, content |-> 1000], [success |-> TRUE, content |-> 4000] }

(* the memory tool: set and initialized or not, and whether its two saves    *)
(* succeed                                                                   *)
MemoryTools == [available : BOOLEAN, file_ok : BOOLEAN, db_ok : BOOLEAN]

(* the options of the resume request sent without the flag                   *)
generate_resume_options_managed ==
    [max_tokens |-> 2048, skip_context_management |-> FALSE]

(* opts.max_tokens = 2048; opts.skip_context_management = true               *)
generate_resume_options ==
    [max_tokens |-> 2048, skip_context_management |-> TRUE]

(* the options of a request of the agent                                     *)
default_options == [max_tokens |-> 4096, skip_context_management |-> FALSE]

save_resume_to_memory(mem) ==
    IF ~mem.available THEN FALSE ELSE mem.file_ok \/ mem.db_ok

(* content size of the last user message without "[TOOL_RESULT", 0 if none   *)
RECURSIVE last_user_message(_)
last_user_message(h) ==
    IF h = << >> THEN 0
    ELSE LET m == h[Len(h)]
         IN IF m.role = "user" /\ ~m.tr THEN m.size
            ELSE last_user_message(SubSeq(h, 1, Len(h) - 1))

build_resumed_history(resume, last_user, system_prompt) ==
    (IF system_prompt # 0 THEN << CtxMsg("system", system_prompt, FALSE) >>
     ELSE << >>)
    \o << CtxMsg("user", ResumePrefixSize + resume + ResumeSuffixSize, FALSE),
          CtxMsg("assistant", AcknowledgmentSize, FALSE) >>
    \o (IF last_user # 0 THEN << CtxMsg("user", last_user, FALSE) >> ELSE << >>)

(* a resume that never counts as empty                                       *)
resume_empty_never(resume) == FALSE

(* resume.empty()                                                            *)
resume_empty(resume) == resume = 0

(* env holds what stays the same through one call: the provider ai, the      *)
(* configuration cfg, the system prompt, the completion the model gives and  *)
(* the memory tool.  Every operator returns, besides its result, the number  *)
(* of chat calls and of resume cycles it made.                               *)
RECURSIVE chat(_, _, _, _)
RECURSIVE manage_context(_, _, _)
RECURSIVE perform_resume_cycle(_, _, _)
RECURSIVE generate_resume(_, _, _)

(* OpenRouterAI::chat                                                        *)
chat(env, messages, opts, depth) ==
    IF ~env.ai.initialized \/ messages = << >>
    THEN [success |-> FALSE, content |-> 0, chat_calls |-> 1, cycles |-> 0,
          managed |-> FALSE, resumed |-> FALSE, rebuilt |-> << >>]
    ELSE LET m == IF ~opts.skip_context_management
                  THEN manage_context(env, messages, depth)
                  ELSE [chat_calls |-> 0, cycles |-> 0, resumed |-> FALSE,
                        rebuilt |-> << >>]
         IN [success |-> env.reply.success, content |-> env.reply.content,
             chat_calls |-> 1 + m.chat_calls, cycles |-> m.cycles,
             managed |-> ~opts.skip_context_management,
             resumed |-> m.resumed, rebuilt |-> m.rebuilt]

(* OpenRouterAI::manage_context: the cycle runs on a copy of the messages,   *)
(* and the copy or the trimmed messages only shape the request that is sent: *)
(* rebuilt is the copy a successful cycle returns for the request, and the   *)
(* caller's messages stay as they are.                                       *)
(* The nesting of cycles is cut off at MaxNesting.                           *)
manage_context(env, messages, depth) ==
    IF needs_resume(env.cfg, messages, env.system_prompt) /\ depth < MaxNesting
    THEN LET c == perform_resume_cycle(env, messages, depth + 1)
         IN [chat_calls |-> c.chat_calls, cycles |-> c.cycles,
             resumed |-> c.ok, rebuilt |-> IF c.ok THEN c.history ELSE << >>]
    ELSE [chat_calls |-> 0, cycles |-> 0, resumed |-> FALSE, rebuilt |-> << >>]

(* ContextManager::generate_resume                                           *)
generate_resume(env, h, depth) ==
    IF env.ai.null \/ ~env.ai.configured
    THEN [resume |-> 0, chat_calls |-> 0, cycles |-> 0, managed |-> FALSE]
    ELSE LET resume_messages == Append(h, CtxMsg("user", ResumePromptSize, FALSE))
             r == chat(env, resume_messages, generate_resume_options, depth)
         IN [resume |-> IF ~r.success THEN 0
                        ELSE IF r.content > env.cfg.max_resume_chars
                        THEN env.cfg.max_resume_chars + ResumeTruncatedMarkerSize
                        ELSE r.content,
             chat_calls |-> r.chat_calls, cycles |-> r.cycles,
             managed |-> r.managed]

(* ContextManager::perform_resume_cycle                                      *)
perform_resume_cycle(env, h, depth) ==
    LET g == generate_resume(env, h, depth)
    IN IF resume_empty(g.resume)
       THEN [ok |-> FALSE, history |-> h, generated |-> g.resume # 0,
             saved |-> "not_reached", chat_calls |-> g.chat_calls,
             cycles |-> 1 + g.cycles, managed |-> g.managed]
       ELSE [ok |-> TRUE,
             history |-> build_resumed_history(g.resume, last_user_message(h),
                                               env.system_prompt),
             generated |-> g.resume # 0,
             saved |-> IF ~env.cfg.auto_save_memory THEN "skipped"
                       ELSE IF save_resume_to_memory(env.mem) THEN "saved"
                       ELSE "failed",
             chat_calls |-> g.chat_calls, cycles |-> 1 + g.cycles,
             managed |-> g.managed]

NoOutcome ==
    [ok |-> FALSE, generated |-> FALSE, saved |-> "not_reached",
     chat_calls |-> 0, cycles |-> 0, managed |-> FALSE]

NoProvider == [null |-> TRUE, configured |-> FALSE, initialized |-> FALSE]

(* no model answer, and no earlier model call of the run                     *)
NoCompletion == [success |-> FALSE, content |-> 0]

NoPrevious == [resumed |-> FALSE, rebuilt |-> << >>, appended |-> << >>]

(* the context manager before any call                                       *)
NoCycle ==
    [phase |-> "idle",
     config |-> [usage_threshold |-> 75, max_context_chars |-> 16000,
                 reserve_for_response |-> 4000, max_resume_chars |-> 3000,
                 auto_save_memory |-> TRUE],
     system_prompt |-> 0, history |-> << >>, before |-> << >>,
     ai |-> NoProvider, usage |-> NoUsage, outcome |-> NoOutcome,
     reply |-> NoCompletion, resumed |-> FALSE, rebuilt |-> << >>,
     previous |-> NoPrevious]

(* ======================================================================== *)
(* Sandbox                                                                  *)
(* ======================================================================== *)
MaxExtra == 2

(* A path is the sequence of the pieces of its text; "/" is always a piece   *)
(* of its own, so that a prefix of pieces is a prefix of characters.         *)
BaseDir == <<"/", "home", "/", ".opencrank">>
TmpDir == <<"/", "tmp">>

(* readonly_dirs                                                             *)
SystemDirs ==
    { <<"/", "usr">>, <<"/", "lib">>, <<"/", "lib", "64">>, <<"/", "bin">>,
      <<"/", "sbin">>, <<"/", "etc">>, <<"/", "dev">>, <<"/", "proc">>,
      <<"/", "sys">>, <<"/", "tmp">>, <<"/", "run">> }

(* the directories callers register with allow_path                          *)
ExtraDirs ==
    { <<"/", "srv", "/", "proj">>, <<"/", "srv", "/", "proj", "ect">>,
      <<"/", "home", "/", ".opencrank", "2">> }

(* A path handed to is_path_allowed: its text, whether realpath resolves it  *)
(* (the file exists), and the place it denotes once "..", "." and symbolic   *)
(* links are resolved.                                                       *)
PathArg(raw, exists, resolved) ==
    [raw |-> raw, exists |-> exists, resolved |-> resolved]

QueriedPaths ==
    { PathArg(BaseDir \o <<"/", "jail", "/", "a">>, TRUE,
              BaseDir \o <<"/", "jail", "/", "a">>),
      PathArg(BaseDir \o <<"/", "jail", "/", "new">>, FALSE,
              BaseDir \o <<"/", "jail", "/", "new">>),
      PathArg(BaseDir \o <<"/", "jail", "/", "link">>, TRUE,
              <<"/", "root", "/", "secret">>),
      PathArg(BaseDir \o <<"/", "..", "/", "new">>, FALSE,
              <<"/", "home", "/", "new">>),
      PathArg(<<"/", "home", "/", ".opencrank", "2", "/", "a">>, TRUE,
              <<"/", "home", "/", ".opencrank", "2", "/", "a">>),
      PathArg(<<"/", "srv", "/", "proj", "ect", "/", "a">>, TRUE,
              <<"/", "srv", "/", "proj", "ect", "/", "a">>),
      PathArg(<<"/", "srv", "/", "proj", "/", "a">>, TRUE,
              <<"/", "srv", "/", "proj", "/", "a">>),
      PathArg(<<"/", "tmp", "/", "a">>, TRUE, <<"/", "tmp", "/", "a">>),
      PathArg(<<"/", "usr", "/", "lib">>, TRUE, <<"/", "usr", "/", "lib">>),
      PathArg(<<"/", "root", "/", "secret">>, TRUE, <<"/", "root", "/", "secret">>) }

(* check_path.size() >= dir.size() && check_path.compare(0, dir.size(), dir) == 0 *)
HasPrefix(path, dir) ==
    Len(path) >= Len(dir) /\ SubSeq(path, 1, Len(dir)) = dir

(* check_path.size() == dir.size() || check_path[dir.size()] == '/'          *)
AtBoundary(path, dir) ==
    Len(path) = Len(dir) \/ path[Len(dir) + 1] = "/"

(* the loop over extra_allowed_paths_: the first entry that is a prefix of   *)
(* the path decides                                                          *)
RECURSIVE check_extra(_, _, _)
check_extra(extra, i, path) ==
    IF i > Len(extra) THEN FALSE
    ELSE IF HasPrefix(path, extra[i]) THEN AtBoundary(path, extra[i])
    ELSE check_extra(extra, i + 1, path)

is_path_allowed(sb, p) ==
    IF ~sb.active_ THEN TRUE
    ELSE LET check_path == IF p.exists THEN p.resolved ELSE p.raw
         IN IF HasPrefix(check_path, sb.base_dir_)
            THEN AtBoundary(check_path, sb.base_dir_)
            ELSE check_extra(sb.extra_allowed_paths_, 1, check_path)

(* allow_path without the test of active_                                    *)
allow_path_unguarded(sb, path) ==
    [sb EXCEPT !.extra_allowed_paths_ = Append(@, path)]

(* if (!active_) extra_allowed_paths_.push_back(path)                        *)
allow_path(sb, path) ==
    IF ~sb.active_
    THEN [sb EXCEPT !.extra_allowed_paths_ = Append(@, path)]
    ELSE sb

Range(q) == { q[i] : i \in 1..Len(q) }

(* what the system calls of activate do: they fail at some step or all       *)
(* succeed, and add_rw_rule succeeds for some of the extra paths             *)
ActivationOutcomes ==
    {"no_ruleset", "no_base_rule", "no_new_privs_failed", "restrict_self_failed", "ok"}

(* activate without its first line: an active sandbox is set up again        *)
activate_again(sb, outcome, granted_extra) ==
    IF ~sb.supported_ THEN [sb EXCEPT !.last_result = FALSE, !.built = FALSE]
    ELSE IF outcome # "ok"
    THEN [sb EXCEPT !.last_result = FALSE, !.built = outcome # "no_ruleset"]
    ELSE [sb EXCEPT !.active_ = TRUE,
                    !.ruleset = {sb.base_dir_} \cup SystemDirs \cup {TmpDir}
                                \cup (Range(sb.extra_allowed_paths_) \cap granted_extra),
                    !.last_result = TRUE, !.built = TRUE]

(* Sandbox::activate.  ruleset is what the enforced Landlock ruleset grants, *)
(* built tells whether this call created a ruleset.                          *)
activate(sb, outcome, granted_extra) ==
    IF sb.active_ THEN [sb EXCEPT !.last_result = TRUE, !.built = FALSE]
    ELSE IF ~sb.supported_ THEN [sb EXCEPT !.last_result = FALSE, !.built = FALSE]
    ELSE IF outcome # "ok"
    THEN [sb EXCEPT !.last_result = FALSE, !.built = outcome # "no_ruleset"]
    ELSE [sb EXCEPT !.active_ = TRUE,
                    !.ruleset = {sb.base_dir_} \cup SystemDirs \cup {TmpDir}
                                \cup (Range(sb.extra_allowed_paths_) \cap granted_extra),
                    !.last_result = TRUE, !.built = TRUE]

(* the sandbox after its constructor and init(); supported_ is set by the    *)
(* specification's initial condition                                         *)
NoSandbox ==
    [active_ |-> FALSE, supported_ |-> FALSE, base_dir_ |-> BaseDir,
     extra_allowed_paths_ |-> << >>, ruleset |-> {}, built |-> FALSE,
     last_call |-> "init", last_path |-> << >>, last_result |-> TRUE]


(* ======================================================================== *)
(* Application start-up                                                     *)
(* ======================================================================== *)
MaxPlugins == 2

(* the steps of Application::init in the order with the sandbox set up and   *)
(* activated first                                                           *)
init_order_sandbox_first ==
    <<"load_config", "setup_sandbox", "activate_sandbox", "setup_plugins",
      "setup_components", "verify">>

(* the steps of Application::init after the command line is parsed, in the   *)
(* order of its statements; setup_components stands for setup_logging up to  *)
(* ai_monitor_.start()                                                       *)
init_order ==
    <<"load_config", "setup_plugins", "setup_sandbox", "setup_components",
      "activate_sandbox", "verify">>

(* the step that follows step in Application::init                           *)
step_after(step) ==
    LET i == CHOOSE k \in 1..Len(init_order) : init_order[k] = step
    IN init_order[i + 1]

(* PluginLoader::load_from_config: one dlopen per configured plugin, each    *)
(* of which succeeds or fails; loads is the sequence of their outcomes       *)
load_from_config(loads) ==
    [i \in 1..Len(loads) |-> IF loads[i] THEN "dlopen" ELSE "dlopen_failed"]

(* Application::setup_sandbox: Sandbox::init sets base_dir_ and then creates *)
(* the directories                                                           *)
setup_sandbox(a, init_ok) ==
    [a EXCEPT !.base_dir_set = TRUE,
              !.events = Append(@, IF init_ok THEN "sandbox_init"
                                   ELSE "sandbox_init_failed")]

(* Application::activate_sandbox                                             *)
activate_sandbox(a, activate_ok) ==
    IF ~a.sandbox_enabled \/ ~a.base_dir_set THEN a
    ELSE [a EXCEPT !.sandbox_active = activate_ok,
                   !.events = Append(@, IF activate_ok THEN "sandbox_activate"
                                        ELSE "sandbox_activate_failed")]

(* the application before Application::init                                  *)
NoApp ==
    [pc |-> "idle", sandbox_enabled |-> TRUE, plugins |-> 0,
     base_dir_set |-> FALSE, sandbox_active |-> FALSE, events |-> << >>]


(* ======================================================================== *)
(* Content chunker                                                          *)
(* ======================================================================== *)
MaxStores == 2

(* if (chunk_size == 0) chunk_size = 8000                                    *)
DefaultChunkSize == 8000

(* std::min(static_cast<size_t>(2000), result.output.size())                 *)
PreviewLimit == 2000

(* The repository holds two definitions of the ContentChunker members, one   *)
(* in agent.cpp and one in content_chunker.cpp; a build links one of them.   *)
ChunkerImpls == {"agent.cpp", "content_chunker.cpp"}

(* sizes of the contents handed to store, and the chunk sizes asked for      *)
ContentSizes == {0, 5, 500}
ChunkSizes == {0, 2, 100}

(* (content.size() + chunk_size - 1) / chunk_size, for chunk_size > 0        *)
total_chunks_of(size, chunk_size) == (size + chunk_size - 1) \div chunk_size

(* What store does with the chunk size it is given.  content_chunker.cpp     *)
(* replaces 0 by 8000.  agent.cpp divides by the chunk size as given: for 0  *)
(* the division is undefined, the process is killed by the trap or goes on   *)
(* with some count, written here as the choice ub = [crashed, count].        *)
store_entry(impl, size, source, chunk_size, ub) ==
    LET cs == IF impl = "content_chunker.cpp" /\ chunk_size = 0
              THEN DefaultChunkSize ELSE chunk_size
    IN [full_content |-> size, source |-> source, chunk_size |-> cs,
        total_chunks |-> IF cs = 0 THEN ub.count ELSE total_chunks_of(size, cs)]

store_crashes(impl, chunk_size, ub) ==
    impl = "agent.cpp" /\ chunk_size = 0 /\ ub.crashed

UndefinedDivisions == [crashed : BOOLEAN, count : {0, 1}]

(* clear that also starts the ids again                                      *)
clear_resetting(c) == [c EXCEPT !.storage_ = << >>, !.next_id_ = 1]

(* storage_.clear()                                                          *)
clear(c) == [c EXCEPT !.storage_ = << >>]

(* storage_.erase(id)                                                        *)
remove(c, id) ==
    [c EXCEPT !.storage_ = [k \in DOMAIN c.storage_ \ {id} |-> c.storage_[k]]]

(* ContentChunker::store: the id is "chunk_" followed by next_id_++          *)
store(c, size, source, chunk_size, ub) ==
    IF store_crashes(c.impl, chunk_size, ub)
    THEN [c EXCEPT !.next_id_ = @ + 1, !.crashed = TRUE]
    ELSE [c EXCEPT
            !.next_id_ = @ + 1,
            !.issued = Append(@, c.next_id_),
            !.storage_ = [k \in DOMAIN c.storage_ \cup {c.next_id_} |->
                            IF k = c.next_id_
                            THEN store_entry(c.impl, size, source, chunk_size, ub)
                            ELSE c.storage_[k]]]

get_total_chunks(c, id) ==
    IF id \notin DOMAIN c.storage_ THEN 0 ELSE c.storage_[id].total_chunks

(* ContentChunker::get_chunk: the part of the content the framed chunk holds *)
get_chunk(c, id, chunk_index) ==
    IF id \notin DOMAIN c.storage_
    THEN [error |-> "not found", start |-> 0, len |-> 0]
    ELSE LET cc == c.storage_[id]
         IN IF chunk_index >= cc.total_chunks
            THEN [error |-> "out of range", start |-> 0, len |-> 0]
            ELSE LET start == chunk_index * cc.chunk_size
                 IN [error |-> "", start |-> start,
                     len |-> Min(cc.chunk_size, cc.full_content - start)]

(* AgentConfig::effective_chunk_size                                         *)
effective_chunk_size(cfg) ==
    IF cfg.chunk_size > 0 THEN cfg.chunk_size
    ELSE IF cfg.context_size > 0
    THEN LET derived == (cfg.context_size * 4) \div 10
         IN IF derived > 2000 THEN derived ELSE 2000
    ELSE 8000

AgentConfigs ==
    [max_tool_result_size : {100, 15000}, auto_chunk_large_results : BOOLEAN,
     chunk_size : {0, 100}, context_size : {0, 10000}]

NoBody == [chunked |-> FALSE, chunk_id |-> 0, total_chunks |-> 0,
           preview_size |-> 0, truncated |-> FALSE, output |-> 0]

(* a summary whose preview is cut at the result size limit                   *)
format_body_preview_at_limit(cfg, c2, id, output) ==
    LET preview_size == Min(cfg.max_tool_result_size, output)
    IN [chunked |-> TRUE, chunk_id |-> id,
        total_chunks |-> get_total_chunks(c2, id),
        preview_size |-> preview_size, truncated |-> preview_size < output,
        output |-> output]

(* the body format_tool_result writes for a successful result over the       *)
(* limit: the summary of the chunked output (id, count, preview)             *)
format_body(cfg, c2, id, output) ==
    LET preview_size == Min(PreviewLimit, output)
    IN [chunked |-> TRUE, chunk_id |-> id,
        total_chunks |-> get_total_chunks(c2, id),
        preview_size |-> preview_size, truncated |-> preview_size < output,
        output |-> output]

(* the configuration /continue hands to its run: a default-constructed      *)
(* AgentConfig, of which only the two limits of the loop are then set        *)
ContinueConfig ==
    [max_tool_result_size |-> 15000, auto_chunk_large_results |-> TRUE,
     chunk_size |-> 0, context_size |-> 0]

(* the chunker of a new Agent                                                *)
NoChunker ==
    [impl |-> "content_chunker.cpp", next_id_ |-> 1, storage_ |-> << >>,
     issued |-> << >>, crashed |-> FALSE, last_call |-> "none",
     last_args |-> << >>, last_chunk |-> [error |-> "", start |-> 0, len |-> 0],
     config |-> [max_tool_result_size |-> 15000, auto_chunk_large_results |-> TRUE,
                 chunk_size |-> 0, context_size |-> 0],
     body |-> NoBody]


(* ======================================================================== *)
(* Tool-call text: provider normalisation and parse_tool_calls              *)
(* ======================================================================== *)
(* A text is a sequence of pieces: the characters that matter to the parser  *)
(* (braces, colon, comma, double quote, backslash, white space) one piece    *)
(* each, every other run of characters one piece.  The double quote, the    *)
(* backslash and the three-backquote code fence are written by name.         *)
Quote == "QUOTE"
Backslash == "BACKSLASH"
Fence == "FENCE"
WhiteSpace == {" ", "\n"}

Sub(t, first, last) == [k \in 1..(last - first + 1) |-> t[first + k - 1]]

RECURSIVE Width(_)
(* the number of characters of a text                                        *)
Width(t) ==
    IF t = << >> THEN 0
    ELSE (CASE Head(t) \in {Quote, Backslash} -> 1
            [] Head(t) = Fence -> 3
            [] OTHER -> Len(Head(t)))
         + Width(Tail(t))

(* std::string::find from a position: the index of the first piece equal to *)
(* c at or after from, 0 when there is none                                  *)
Find(t, c, from) ==
    IF \E k \in from..Len(t) : t[k] = c
    THEN CHOOSE k \in from..Len(t) :
             t[k] = c /\ \A m \in from..(k - 1) : t[m] # c
    ELSE 0

trim_whitespace(t) ==
    IF \A k \in 1..Len(t) : t[k] \in WhiteSpace THEN << >>
    ELSE LET start == CHOOSE k \in 1..Len(t) :
                 t[k] \notin WhiteSpace /\ \A m \in 1..(k - 1) : t[m] \in WhiteSpace
             end == CHOOSE k \in 1..Len(t) :
                 t[k] \notin WhiteSpace /\ \A m \in (k + 1)..Len(t) : t[m] \in WhiteSpace
         IN Sub(t, start, end)

(* the index of the first piece after i that is not white space, Len + 1     *)
(* when there is none                                                        *)
NextSignificant(t, i) ==
    IF \E k \in (i + 1)..Len(t) : t[k] \notin WhiteSpace
    THEN CHOOSE k \in (i + 1)..Len(t) :
             t[k] \notin WhiteSpace /\ \A m \in (i + 1)..(k - 1) : t[m] \in WhiteSpace
    ELSE Len(t) + 1

(* a comma followed, after white space, by } or ] is left out                *)
remove_trailing_commas(t) ==
    SelectSeq([k \in 1..Len(t) |->
                 IF t[k] = ","
                    /\ NextSignificant(t, k) <= Len(t)
                    /\ t[NextSignificant(t, k)] \in {"}", "]"}
                 THEN "" ELSE t[k]],
              LAMBDA c : c # "")

(* cleaned.erase(fence_pos, 3) for every code fence                          *)
strip_fences(t) == SelectSeq(t, LAMBDA c : c # Fence)

RECURSIVE JsonAccepts(_, _, _, _)
(* Json::parse accepts a text: a string, or an object of string keys whose   *)
(* values are strings or objects.  st is what the parser expects next, depth *)
(* the number of objects open.                                               *)
JsonAccepts(t, i, st, depth) ==
    IF i > Len(t) THEN st = "end"
    ELSE LET c == t[i]
             after_value(d) == IF d = 0 THEN "end" ELSE "comma_or_close"
         IN CASE st \in {"in_key", "in_val"} ->
                   IF c = Backslash
                   THEN i < Len(t) /\ JsonAccepts(t, i + 2, st, depth)
                   ELSE IF c = Quote
                   THEN JsonAccepts(t, i + 1,
                            IF st = "in_key" THEN "colon" ELSE after_value(depth),
                            depth)
                   ELSE c # "\n" /\ JsonAccepts(t, i + 1, st, depth)
              [] c \in WhiteSpace -> JsonAccepts(t, i + 1, st, depth)
              [] st = "value" ->
                   IF c = "{" THEN JsonAccepts(t, i + 1, "key_or_close", depth + 1)
                   ELSE c = Quote /\ JsonAccepts(t, i + 1, "in_val", depth)
              [] st \in {"key_or_close", "comma_or_close"} /\ c = "}" ->
                   JsonAccepts(t, i + 1, after_value(depth - 1), depth - 1)
              [] st \in {"key_or_close", "key"} ->
                   c = Quote /\ JsonAccepts(t, i + 1, "in_key", depth)
              [] st = "colon" -> c = ":" /\ JsonAccepts(t, i + 1, "value", depth)
              [] st = "comma_or_close" ->
                   c = "," /\ JsonAccepts(t, i + 1, "key", depth)
              [] OTHER -> FALSE

RECURSIVE Compact(_, _, _)
(* the parsed value, written without the white space between its tokens     *)
Compact(t, i, in_string) ==
    IF i > Len(t) THEN << >>
    ELSE LET c == t[i]
         IN IF in_string /\ c = Backslash /\ i < Len(t)
            THEN <<c, t[i + 1]>> \o Compact(t, i + 2, in_string)
            ELSE IF c = Quote THEN <<c>> \o Compact(t, i + 1, ~in_string)
            ELSE IF ~in_string /\ c \in WhiteSpace THEN Compact(t, i + 1, in_string)
            ELSE <<c>> \o Compact(t, i + 1, in_string)

(* Json::parse: throws on a text that is not JSON                            *)
Json_parse(t) ==
    IF JsonAccepts(t, 1, "value", 0)
    THEN [ok |-> TRUE, value |-> Compact(t, 1, FALSE)]
    ELSE [ok |-> FALSE, value |-> << >>]

RECURSIVE escape_inner_quotes(_, _, _, _, _)
(* the second recovery pass of try_parse_json: a quote that would end a      *)
(* value string but is not followed by , } or ] gets a backslash.  A string  *)
(* counts as a key only while no colon has been seen.                        *)
escape_inner_quotes(t, i, in_string, in_key, colon_seen) ==
    IF i > Len(t) THEN << >>
    ELSE LET c == t[i]
             next_char == NextSignificant(t, i)
         IN IF c = Backslash
            THEN IF i = Len(t) THEN <<c>>
                 ELSE <<c, t[i + 1]>>
                      \o escape_inner_quotes(t, i + 2, in_string, in_key, colon_seen)
            ELSE IF c = Quote /\ ~in_string
            THEN <<c>> \o escape_inner_quotes(t, i + 1, TRUE, ~colon_seen, colon_seen)
            ELSE IF c = Quote /\ ~in_key /\ next_char <= Len(t)
                    /\ t[next_char] \notin {",", "}", "]"}
            THEN <<Backslash, c>>
                 \o escape_inner_quotes(t, i + 1, TRUE, in_key, colon_seen)
            ELSE IF c = Quote
            THEN <<c>> \o escape_inner_quotes(t, i + 1, FALSE, FALSE, colon_seen)
            ELSE <<c>> \o escape_inner_quotes(t, i + 1, in_string, in_key,
                                              colon_seen \/ (c = ":" /\ ~in_string))

(* std::string::rfind: the index of the last piece equal to c, 0 if none     *)
RFind(t, c) ==
    IF \E k \in 1..Len(t) : t[k] = c
    THEN CHOOSE k \in 1..Len(t) : t[k] = c /\ \A m \in (k + 1)..Len(t) : t[m] # c
    ELSE 0

JsonFailure == [ok |-> FALSE, value |-> << >>, error |-> "parse error"]

JsonSuccess(value) == [ok |-> TRUE, value |-> value, error |-> ""]

(* try_parse_json: the text as it is, then without code fences and trailing  *)
(* commas, then with the inner quotes escaped                                *)
try_parse_json(raw) ==
    IF Json_parse(raw).ok THEN JsonSuccess(Json_parse(raw).value)
    ELSE LET cleaned == trim_whitespace(strip_fences(raw))
             first_brace == Find(cleaned, "{", 1)
             last_brace == RFind(cleaned, "}")
         IN IF first_brace # 0 /\ last_brace > first_brace
            THEN LET sanitized == remove_trailing_commas(
                                      Sub(cleaned, first_brace, last_brace))
                     fixed == escape_inner_quotes(sanitized, 1, FALSE, FALSE, FALSE)
                 IN IF Json_parse(sanitized).ok
                    THEN JsonSuccess(Json_parse(sanitized).value)
                    ELSE IF Json_parse(fixed).ok
                    THEN JsonSuccess(Json_parse(fixed).value)
                    ELSE JsonFailure
            ELSE JsonFailure

RECURSIVE match_brace(_, _, _, _)
(* the scan of parse_tool_calls for the closing brace: the position after    *)
(* it and the braces still open when the scan stops                          *)
match_brace(t, scan, brace_count, in_string) ==
    IF scan > Len(t) \/ brace_count = 0
    THEN [scan |-> scan, brace_count |-> brace_count]
    ELSE LET c == t[scan]
         IN IF c = Backslash /\ in_string
            THEN match_brace(t, Min(scan + 2, Len(t) + 1), brace_count, in_string)
            ELSE IF c = Quote THEN match_brace(t, scan + 1, brace_count, ~in_string)
            ELSE IF ~in_string /\ c = "{"
            THEN match_brace(t, scan + 1, brace_count + 1, in_string)
            ELSE IF ~in_string /\ c = "}"
            THEN match_brace(t, scan + 1, brace_count - 1, in_string)
            ELSE match_brace(t, scan + 1, brace_count, in_string)

RECURSIVE string_end(_, _)
(* the index of the quote that closes the string whose content starts at i   *)
string_end(v, i) ==
    IF v[i] = Backslash THEN string_end(v, i + 2)
    ELSE IF v[i] = Quote THEN i
    ELSE string_end(v, i + 1)

(* the index of the last piece of the value that starts at i                 *)
value_end(v, i) ==
    IF v[i] = "{" THEN match_brace(v, i + 1, 1, FALSE).scan - 1
    ELSE string_end(v, i + 1)

RECURSIVE members_from(_, _)
(* the members of a parsed object from the key at i on                       *)
members_from(v, i) ==
    IF v[i] # Quote THEN << >>
    ELSE LET key_end == string_end(v, i + 1)
             last == value_end(v, key_end + 2)
             member == [key |-> Sub(v, i + 1, key_end - 1),
                        value |-> Sub(v, key_end + 2, last)]
         IN <<member>> \o (IF v[last + 1] = "," THEN members_from(v, last + 2)
                           ELSE << >>)

is_object(v) == v # << >> /\ v[1] = "{"

is_string(v) == v # << >> /\ v[1] = Quote

members(v) == IF is_object(v) THEN members_from(v, 2) ELSE << >>

contains(v, key) == \E k \in 1..Len(members(v)) : members(v)[k].key = <<key>>

(* operator[]: of members with the same key the parser keeps the last        *)
member(v, key) ==
    LET ms == members(v)
        k == CHOOSE k \in 1..Len(ms) :
                 ms[k].key = <<key>> /\ \A m \in (k + 1)..Len(ms) : ms[m].key # <<key>>
    IN ms[k].value

RECURSIVE unescape(_)
unescape(t) ==
    IF t = << >> THEN << >>
    ELSE IF Head(t) = Backslash /\ Len(t) > 1
    THEN <<t[2]>> \o unescape(Tail(Tail(t)))
    ELSE <<Head(t)>> \o unescape(Tail(t))

(* get<std::string>()                                                        *)
get_string(v) == unescape(Sub(v, 2, Len(v) - 1))

(* std::min(brace_start + 200, response.size())                              *)
LookAhead == 200

(* a quoted string                                                           *)
Str(s) == <<Quote, s, Quote>>

(* the look-ahead of parse_tool_calls: the quoted word tool lies within the  *)
(* 200 characters that start at the brace                                    *)
has_tool_ahead(t, brace_start) ==
    \E j \in brace_start..(Len(t) - 2) :
        /\ Sub(t, j, j + 2) = Str("tool")
        /\ Width(Sub(t, brace_start, j + 2)) <= LookAhead

ArgumentsNotJson == "Arguments field is a string but not valid JSON"

(* the ParsedToolCall built from a candidate that parsed to an object with   *)
(* a non-empty tool name                                                     *)
parsed_call(value, tool_name, brace_start, scan, candidate) ==
    LET base == [kind |-> "call", tool_name |-> tool_name,
                 start_pos |-> brace_start, end_pos |-> scan,
                 raw_content |-> candidate, params |-> <<"{", "}">>,
                 valid |-> TRUE, parse_error |-> ""]
        has_arguments == contains(value, "arguments")
        arguments == member(value, "arguments")
        args_parsed == try_parse_json(get_string(arguments))
    IN IF has_arguments /\ is_object(arguments)
       THEN [base EXCEPT !.params = arguments]
       ELSE IF has_arguments /\ is_string(arguments)
       THEN IF args_parsed.ok /\ is_object(args_parsed.value)
            THEN [base EXCEPT !.params = args_parsed.value]
            ELSE [base EXCEPT !.valid = FALSE, !.parse_error = ArgumentsNotJson]
       ELSE base

(* a candidate the scan passed over because try_parse_json failed on it      *)
skipped_candidate(brace_start, scan, candidate) ==
    [kind |-> "skipped", tool_name |-> << >>, start_pos |-> brace_start,
     end_pos |-> scan, raw_content |-> candidate, params |-> << >>,
     valid |-> FALSE, parse_error |-> ""]

RECURSIVE scan_tool_calls(_, _)
(* the loop of parse_tool_calls from pos on: the calls it pushes, and, for   *)
(* the record, the candidates it passes over after a failed parse            *)
scan_tool_calls(t, pos) ==
    LET brace_start == Find(t, "{", pos)
        m == match_brace(t, brace_start + 1, 1, FALSE)
        candidate == Sub(t, brace_start, m.scan - 1)
        parsed == try_parse_json(candidate)
        tool_name == IF is_string(member(parsed.value, "tool"))
                     THEN get_string(member(parsed.value, "tool")) ELSE << >>
    IN IF pos > Len(t) \/ brace_start = 0 THEN << >>
       ELSE IF ~has_tool_ahead(t, brace_start) THEN scan_tool_calls(t, brace_start + 1)
       ELSE IF m.brace_count # 0 THEN scan_tool_calls(t, brace_start + 1)
       ELSE IF ~parsed.ok
       THEN <<skipped_candidate(brace_start, m.scan, candidate)>>
            \o scan_tool_calls(t, brace_start + 1)
       ELSE IF ~is_object(parsed.value) \/ ~contains(parsed.value, "tool")
       THEN scan_tool_calls(t, m.scan)
       ELSE IF tool_name = << >> \/ tool_name = <<"">>
       THEN scan_tool_calls(t, m.scan)
       ELSE <<parsed_call(parsed.value, tool_name, brace_start, m.scan, candidate)>>
            \o scan_tool_calls(t, m.scan)

(* Agent::parse_tool_calls on a text                                         *)
parse_tool_calls_text(t) ==
    SelectSeq(scan_tool_calls(t, 1), LAMBDA e : e.kind = "call")

(* the provider adapters                                                     *)
Adapters == {"openrouter", "llamacpp"}

(* the arguments of a native tool call: a JSON object, as a string           *)
NativeArguments ==
    { <<"{", "}">>,
      <<"{">> \o Str("command") \o <<":">> \o Str("ls") \o <<"}">>,
      <<"{">> \o Str("path") \o <<":", " ">> \o Str("a") \o <<",", " ">>
          \o Str("mode") \o <<":", " ">> \o Str("r") \o <<"}">> }

(* message.tool_calls[i].function                                            *)
NativeCalls == [name : {"shell", "read"}, arguments : NativeArguments]

(* one native tool call as the openrouter adapter writes it                  *)
openrouter_call(tc) ==
    <<"{">> \o Str("tool") \o <<":", " ">> \o Str(tc.name) \o <<",", " ">>
    \o Str("arguments") \o <<":", " ">> \o tc.arguments \o <<"}">>

(* one native tool call as the llamacpp adapter writes it                    *)
llamacpp_call(tc) ==
    <<"<tool_call name=">> \o Str(tc.name) \o <<">", "\n">>
    \o tc.arguments \o <<"\n", "</tool_call>">>

RECURSIVE reconstruct_calls(_, _, _)
(* the loop over message.tool_calls: a call without a name is left out, and  *)
(* every call but the first is preceded by an empty line                     *)
reconstruct_calls(adapter, tool_calls, tc) ==
    IF tc > Len(tool_calls) THEN << >>
    ELSE IF tool_calls[tc].name = ""
    THEN reconstruct_calls(adapter, tool_calls, tc + 1)
    ELSE (IF tc > 1 THEN <<"\n", "\n">> ELSE << >>)
         \o (IF adapter = "openrouter" THEN openrouter_call(tool_calls[tc])
             ELSE llamacpp_call(tool_calls[tc]))
         \o reconstruct_calls(adapter, tool_calls, tc + 1)

(* result.content of a completion: the message content, replaced by the     *)
(* reconstruction when the message carries native tool calls                 *)
completion_content(adapter, message) ==
    IF message.tool_calls = << >> THEN message.content
    ELSE (IF message.content # << >> THEN message.content \o <<"\n", "\n">>
          ELSE << >>)
         \o reconstruct_calls(adapter, message.tool_calls, 1)

MaxNativeCalls == 2

(* the tool call the tools prompt asks for, as a model writes it in a reply  *)
InlineCall(name, arguments) ==
    <<"{">> \o Str("tool") \o <<":", " ">> \o Str(name) \o <<",", " ">>
    \o Str("arguments") \o <<":", " ">> \o arguments \o <<"}">>

(* reply texts of a model that writes its tool calls inline: well formed,    *)
(* with a trailing comma, in a code fence, with the arguments as a string    *)
(* (JSON or not), with a value missing, with unescaped quotes in a value,    *)
(* with the closing brace missing, two calls around prose, and no call       *)
ReplyTexts ==
    LET ls == <<"{">> \o Str("command") \o <<":">> \o Str("ls") \o <<"}">>
    IN { InlineCall("shell", ls),
         <<"{">> \o Str("tool") \o <<":">> \o Str("shell") \o <<",", " ", "}">>,
         <<Fence, "json", "\n">> \o InlineCall("read", <<"{", "}">>) \o <<"\n", Fence>>,
         InlineCall("shell", <<Quote, "{", Backslash, Quote, "command", Backslash,
                               Quote, ":", Backslash, Quote, "ls", Backslash, Quote,
                               "}", Quote>>),
         InlineCall("shell", Str("ls")),
         InlineCall("shell", <<"{">> \o Str("command") \o <<":", "}">>),
         InlineCall("shell", <<"{">> \o Str("command") \o <<":", Quote, "echo ",
                               Quote, "hi", Quote, Quote, "}">>),
         <<"{">> \o Str("tool") \o <<":">> \o Str("shell"),
         InlineCall("shell", ls) \o <<"\n", "then", "\n">>
             \o InlineCall("read", <<"{">> \o Str("path") \o <<":", "}">>),
         <<"Done.">> }

(* choices[0].message of a provider response                                 *)
Messages ==
    [content : {<< >>, <<"Let me check.">>}, tool_calls : SeqsUpTo(NativeCalls, MaxNativeCalls)]
    \cup [content : ReplyTexts, tool_calls : {<< >>}]

(* no completion has been received                                           *)
NoParse == [pc |-> "idle", adapter |-> "openrouter",
            message |-> [content |-> << >>, tool_calls |-> << >>],
            content |-> << >>, scanned |-> << >>]

(* ======================================================================== *)
(* Memory entry store                                                       *)
(* ======================================================================== *)
(* A text is a sequence of characters; NUL stands for the zero character a   *)
(* std::string may hold.                                                     *)
NUL == "NUL"

RECURSIVE c_str(_)
(* what sqlite3_bind_text with length -1 reads from text.c_str() and what   *)
(* a std::string built from a char pointer copies: the characters before     *)
(* the first zero                                                            *)
c_str(t) ==
    IF t = << >> \/ Head(t) = NUL THEN << >> ELSE <<Head(t)>> \o c_str(Tail(t))

(* MemoryEntry::MemoryEntry                                                  *)
DefaultEntry ==
    [id |-> << >>, content |-> << >>, category |-> << >>, session_key |-> << >>,
     tags |-> << >>, created_at |-> 0, updated_at |-> 0, expires_at |-> 0,
     importance |-> 5]

EntryIds == {<<"m", "1">>, <<"m", "2">>}

(* the entries a caller saves: a plain one with the defaults of save_memory  *)
(* and a resume with a session key and tags, under each id and content       *)
MemoryEntries ==
    { [id |-> id, content |-> content, category |-> p.category,
       session_key |-> p.session_key, tags |-> p.tags, created_at |-> 1000,
       updated_at |-> 2000, expires_at |-> 0, importance |-> p.importance] :
        id \in EntryIds,
        content \in {<< >>, <<"x">>, <<"x", NUL, "y">>},
        p \in { [category |-> <<"general">>, session_key |-> << >>,
                 tags |-> << >>, importance |-> 5],
                [category |-> <<"resume">>, session_key |-> <<"s">>,
                 tags |-> <<"t1", ",", "t2">>, importance |-> 8] } }

(* the row without the session key                                          *)
bound_row_without_session_key(entry) ==
    [id |-> c_str(entry.id), content |-> c_str(entry.content),
     category |-> c_str(entry.category), session_key |-> << >>,
     tags |-> c_str(entry.tags), created_at |-> entry.created_at,
     updated_at |-> entry.updated_at, expires_at |-> entry.expires_at,
     importance |-> entry.importance]

(* the nine values upsert binds to INSERT OR REPLACE INTO memories           *)
bound_row(entry) ==
    [id |-> c_str(entry.id), content |-> c_str(entry.content),
     category |-> c_str(entry.category), session_key |-> c_str(entry.session_key),
     tags |-> c_str(entry.tags), created_at |-> entry.created_at,
     updated_at |-> entry.updated_at, expires_at |-> entry.expires_at,
     importance |-> entry.importance]

(* MemoryEntryStore::upsert; step_done says whether sqlite3_step returned    *)
(* SQLITE_DONE                                                               *)
upsert(m, entry, step_done) ==
    IF ~m.db_open \/ ~step_done THEN [m EXCEPT !.returned = FALSE]
    ELSE LET row == bound_row(entry)
         IN [m EXCEPT !.returned = TRUE,
                      !.rows = [k \in DOMAIN m.rows \cup {row.id} |->
                                  IF k = row.id THEN row ELSE m.rows[k]]]

(* MemoryEntryStore::get: out is written only when the row exists            *)
get(m, id) ==
    IF m.db_open /\ c_str(id) \in DOMAIN m.rows
    THEN [m EXCEPT !.returned = TRUE, !.out = m.rows[c_str(id)]]
    ELSE [m EXCEPT !.returned = FALSE, !.out = DefaultEntry]

(* MemoryEntryStore::remove                                                  *)
remove_entry(m, id, step_done) ==
    IF ~m.db_open \/ ~step_done THEN [m EXCEPT !.returned = FALSE]
    ELSE [m EXCEPT !.returned = TRUE,
                   !.rows = [k \in DOMAIN m.rows \ {c_str(id)} |-> m.rows[k]]]

(* a store whose database is not open                                        *)
NoStore == [db_open |-> FALSE, rows |-> << >>, last_call |-> "none",
            last_entry |-> DefaultEntry, last_id |-> << >>,
            returned |-> FALSE, out |-> DefaultEntry]

(* ======================================================================== *)
(* Task store: the tasks table                                              *)
(* ======================================================================== *)
TaskIds == {"t1", "t2", "t3"}

(* the tasks callers hand to upsert: due_at 0 means no due date              *)
MemoryTasks ==
    [id : TaskIds, created_at : {1, 2}, due_at : {0, 5, 9}, completed : BOOLEAN]

(* the orders in which the engine may return rows the ORDER BY leaves tied   *)
RowOrders ==
    { o \in [1..Cardinality(TaskIds) -> TaskIds] :
        \A i, j \in DOMAIN o : i # j => o[i] # o[j] }

PositionIn(o, id) == CHOOSE i \in DOMAIN o : o[i] = id

(* ORDER BY due_at ASC, created_at ASC: row a is returned before row b       *)
order_by(a, b, o) ==
    \/ a.due_at < b.due_at
    \/ a.due_at = b.due_at /\ a.created_at < b.created_at
    \/ a.due_at = b.due_at /\ a.created_at = b.created_at
         /\ PositionIn(o, a.id) < PositionIn(o, b.id)

(* TaskStore::upsert: INSERT OR REPLACE by id; false without a database or   *)
(* when the statement does not finish                                        *)
task_upsert(t, task, step_done) ==
    IF ~t.db_open \/ ~step_done THEN [t EXCEPT !.returned = FALSE]
    ELSE [t EXCEPT !.returned = TRUE,
                   !.rows = [id \in DOMAIN t.rows \cup {task.id} |->
                               IF id = task.id THEN task ELSE t.rows[id]]]

(* TaskStore::remove: DELETE by id; true also when no row had the id         *)
task_remove(t, id, step_done) ==
    IF ~t.db_open \/ ~step_done THEN [t EXCEPT !.returned = FALSE]
    ELSE [t EXCEPT !.returned = TRUE,
                   !.rows = [i \in DOMAIN t.rows \ {id} |-> t.rows[i]]]

(* TaskStore::list: the rows, without the completed ones unless asked for,   *)
(* in the order of the ORDER BY clause; empty without a database             *)
list(t, include_completed, o) ==
    IF ~t.db_open THEN << >>
    ELSE LET selected == SelectSeq(o, LAMBDA id :
                            /\ id \in DOMAIN t.rows
                            /\ (include_completed \/ ~t.rows[id].completed))
             rows == [i \in DOMAIN selected |-> t.rows[selected[i]]]
         IN SortSeq(rows, LAMBDA a, b : order_by(a, b, o))

(* a task store whose database is not open                                   *)
NoTasks == [db_open |-> FALSE, rows |-> << >>, last_call |-> "none",
            returned |-> FALSE, include_completed |-> FALSE, listed |-> << >>]

(* ======================================================================== *)
(* Session commands: /new, /continue and /cancel                             *)
(* ======================================================================== *)
MaxSessionLen == 6

MaxSessionCalls == 3

(* the scratch keys of a paused task; the values kept under them (the        *)
(* counts shown by /status) are not modelled                                 *)
PausedKeys == {"agent_paused", "agent_iterations", "agent_tool_calls"}

DigitPieces == <<"0", "1", "2", "3", "4", "5", "6", "7", "8", "9">>

IsDigit(p) == \E v \in 1..10 : DigitPieces[v] = p

DigitValue(p) == (CHOOSE v \in 1..10 : DigitPieces[v] = p) - 1

(* utils.cpp trim: the text without its leading and trailing white space     *)
trim(s) ==
    IF \A k \in 1..Len(s) : s[k] \in {" ", "\t", "\n", "\r"} THEN << >>
    ELSE LET start == CHOOSE k \in 1..Len(s) :
                 /\ s[k] \notin {" ", "\t", "\n", "\r"}
                 /\ \A m \in 1..(k - 1) : s[m] \in {" ", "\t", "\n", "\r"}
             end == CHOOSE k \in 1..Len(s) :
                 /\ s[k] \notin {" ", "\t", "\n", "\r"}
                 /\ \A m \in (k + 1)..Len(s) : s[m] \in {" ", "\t", "\n", "\r"}
         IN [k \in 1..(end - start + 1) |-> s[start + k - 1]]

(* the digits s[i..last] read into a 32-bit int, with the sign applied as    *)
(* they are read; overflow is reported instead of wrapping                   *)
RECURSIVE read_int(_, _, _, _, _)
read_int(s, i, last, negative, acc) ==
    IF i > last THEN [overflow |-> FALSE, value |-> acc]
    ELSE LET d == DigitValue(s[i])
             fits == IF negative
                     THEN acc > -214748364 \/ (acc = -214748364 /\ d <= 8)
                     ELSE acc < 214748364 \/ (acc = 214748364 /\ d <= 7)
         IN IF ~fits THEN [overflow |-> TRUE, value |-> 0]
            ELSE read_int(s, i + 1, last, negative,
                          IF negative THEN acc * 10 - d ELSE acc * 10 + d)

(* std::stoi on a text without leading white space: an optional sign, then   *)
(* the longest run of digits; what follows the digits is ignored             *)
stoi(s) ==
    LET signed == s # << >> /\ s[1] \in {"-", "+"}
        first == IF signed THEN 2 ELSE 1
        last == IF \E k \in first..Len(s) : ~IsDigit(s[k])
                THEN (CHOOSE k \in first..Len(s) :
                        ~IsDigit(s[k]) /\ \A m \in first..(k - 1) : IsDigit(s[m])) - 1
                ELSE Len(s)
        r == read_int(s, first, last, signed /\ s[1] = "-", 0)
    IN IF last < first THEN [thrown |-> "invalid_argument", value |-> 0]
       ELSE IF r.overflow THEN [thrown |-> "out_of_range", value |-> 0]
       ELSE [thrown |-> "none", value |-> r.value]

(* the budget without the test for values below 1                           *)
additional_iterations_unclamped(args) ==
    LET a == trim(args)
    IN IF a = << >> THEN [accepted |-> TRUE, no_stop |-> FALSE, n |-> 15]
       ELSE IF a \in {<<"no-stop">>, <<"nostop">>}
       THEN [accepted |-> TRUE, no_stop |-> TRUE, n |-> 999]
       ELSE LET r == stoi(a)
            IN IF r.thrown # "none"
               THEN [accepted |-> FALSE, no_stop |-> FALSE, n |-> 15]
               ELSE [accepted |-> TRUE, no_stop |-> FALSE,
                     n |-> IF r.value > 999 THEN 999 ELSE r.value]

(* cmd_continue: the iteration budget read from the arguments                *)
additional_iterations(args) ==
    LET a == trim(args)
    IN IF a = << >> THEN [accepted |-> TRUE, no_stop |-> FALSE, n |-> 15]
       ELSE IF a \in {<<"no-stop">>, <<"nostop">>}
       THEN [accepted |-> TRUE, no_stop |-> TRUE, n |-> 999]
       ELSE LET r == stoi(a)
            IN IF r.thrown # "none"
               THEN [accepted |-> FALSE, no_stop |-> FALSE, n |-> 15]
               ELSE [accepted |-> TRUE, no_stop |-> FALSE,
                     n |-> IF r.value < 1 THEN 15
                           ELSE IF r.value > 999 THEN 999 ELSE r.value]

(* the arguments users give to /continue                                     *)
ContinueArgs ==
    { << >>, <<" ">>, <<"no-stop">>, <<"nostop">>, <<"1">>, <<" ", "2", " ">>,
      <<"0">>, <<"-", "5">>, <<"9", "9", "9">>, <<"1", "0", "0", "0">>,
      <<"9", "9", "9", "9", "9", "9", "9", "9", "9", "9", "9">>,
      <<"x">>, <<"1", "x">> }

(* the three remove_data calls of cmd_continue and cmd_cancel                *)
remove_paused(data) == data \ PausedKeys

(* the paused state is stored whenever the run did not succeed               *)
store_paused_unless_success(data, res) ==
    IF ~res.success THEN data \cup PausedKeys ELSE data

(* cmd_continue after the run: the paused state is stored again when the     *)
(* run returned paused                                                       *)
store_paused(data, res) ==
    IF res.paused THEN data \cup PausedKeys ELSE data

(* Session::clear_history                                                    *)
clear_history(h) == << >>

(* a session no message has reached                                          *)
NoSession ==
    [pc |-> "idle", data |-> {}, ai_configured |-> FALSE,
     last_command |-> "none", reply |-> "none", ran |-> FALSE]

(* the components added last are untouched                                  *)
IdleMore ==
    /\ app = NoApp
    /\ chunker = NoChunker
    /\ parse = NoParse
    /\ memory = NoStore
    /\ tasks = NoTasks
    /\ session = NoSession

(* the histories a session can hand to a run: they start with a user or a    *)
(* system message, roles alternate between user and assistant, and the last  *)
(* user message may be a tool result of more than 10000 characters           *)
InitRole(first, i) ==
    IF i = 1 THEN first
    ELSE IF (first = "user") = (i % 2 = 1) THEN "user" ELSE "assistant"

LastUserIndex(first, n) ==
    IF n = 0 THEN 0
    ELSE IF InitRole(first, n) = "user" THEN n
    ELSE IF n >= 2 /\ InitRole(first, n - 1) = "user" THEN n - 1 ELSE 0

InitHistory(n, first, large, closed) ==
    [i \in 1..n |->
       IF large /\ i = LastUserIndex(first, n)
       THEN Msg("user", "old", i, TRUE, closed, TRUE, FALSE)
       ELSE Msg(InitRole(first, i), "old", i, FALSE, FALSE, FALSE, FALSE)]

InitHistories ==
    { InitHistory(n, first, large, closed) :
        n \in 0..MaxInitLen, first \in {"user", "system"},
        large \in BOOLEAN, closed \in BOOLEAN }

Configs ==
    [max_iterations : 1..MaxIterations, max_consecutive_errors : 1..MaxErrors]

Init ==
    /\ pc = "start"
    /\ config \in Configs
    /\ history \in InitHistories
    /\ history_before = history
    /\ initial_history_size = 0
    /\ consecutive_errors = 0
    /\ token_limit_retries = 0
    /\ recent_tool_calls = << >>
    /\ result = EmptyResult
    /\ calls = << >>
    /\ outcomes = << >>
    /\ tool_results = NoToolResults
    /\ chat_log = << >>
    /\ response = NoResponse
    /\ trunc = NoMessage
    /\ ctx = NoCycle
    /\ sandbox = NoSandbox
    /\ IdleMore

(* if (!ai || !ai->is_configured()) return                                   *)
RunNotConfigured ==
    /\ pc = "start"
    /\ pc' = "done"
    /\ result' = [result EXCEPT !.error = "AI not configured"]
    /\ UNCHANGED aux_vars
    /\ UNCHANGED <<config, history, history_before, initial_history_size,
                   consecutive_errors, token_limit_retries, recent_tool_calls,
                   calls, outcomes, tool_results,
                   chat_log, response>>

(* the run up to the first loop test                                         *)
RunStart ==
    /\ pc = "start"
    /\ initial_history_size' = Len(history)
    /\ history' = push_back(history, UserMessage)
    /\ consecutive_errors' = 0
    /\ token_limit_retries' = 0
    /\ recent_tool_calls' = << >>
    /\ Continue(result)
    /\ UNCHANGED aux_vars
    /\ UNCHANGED <<config, history_before, calls, outcomes, tool_results,
                   chat_log, response>>

(* a fatal return that leaves result.error empty                             *)
Fail_without_error(res, error) ==
    /\ pc' = "done"
    /\ result' = res
    /\ history' = Rollback(history, initial_history_size)

(* a fatal return: set the error, roll the history back, return              *)
Fail(res, error) ==
    /\ pc' = "done"
    /\ result' = [res EXCEPT !.error = error]
    /\ history' = Rollback(history, initial_history_size)

(* an iteration whose model call fails with a context-limit error            *)
ChatTokenLimit ==
    /\ pc = "loop"
    /\ \E error \in ErrorTexts :
         /\ is_token_limit_error(error)
         /\ LET res == [result EXCEPT !.iterations = @ + 1]
                attempt == may_retry(token_limit_retries + 1)
                t == try_truncate_history(history)
            IN /\ token_limit_retries' = token_limit_retries + 1
               /\ IF attempt /\ t.ok
                  THEN /\ history' = t.history
                       /\ consecutive_errors' = 0
                       /\ chat_log' = Append(chat_log, "context_recovered")
                       /\ Continue(res)
                  ELSE /\ Fail(res, "Context window exceeded and recovery failed")
                       /\ chat_log' = Append(chat_log,
                              IF attempt THEN "context_stuck" ELSE "context_exhausted")
                       /\ UNCHANGED consecutive_errors
    /\ calls' = << >>
    /\ outcomes' = << >>
    /\ tool_results' = NoToolResults
    /\ response' = NoResponse
    /\ UNCHANGED aux_vars
    /\ UNCHANGED <<config, history_before, initial_history_size, recent_tool_calls>>

(* an iteration whose model call fails with any other error                  *)
ChatFails ==
    /\ pc = "loop"
    /\ \E error \in ErrorTexts :
         /\ ~is_token_limit_error(error)
         /\ LET res == [result EXCEPT !.iterations = @ + 1]
            IN /\ consecutive_errors' = consecutive_errors + 1
               /\ IF errors_saturated(consecutive_errors + 1)
                  THEN Fail(res, "Too many consecutive AI errors")
                  ELSE Continue(res) /\ UNCHANGED history
    /\ chat_log' = Append(chat_log, "error")
    /\ calls' = << >>
    /\ outcomes' = << >>
    /\ tool_results' = NoToolResults
    /\ response' = NoResponse
    /\ UNCHANGED aux_vars
    /\ UNCHANGED <<config, history_before, initial_history_size,
                   token_limit_retries, recent_tool_calls>>

(* an iteration whose model call succeeds with a text without tool calls     *)
ChatRepliesText ==
    /\ pc = "loop"
    /\ \E reply \in Replies :
         /\ parse_tool_calls(reply) = << >>
         /\ LET res == [result EXCEPT !.iterations = @ + 1]
                indicates_tool_intent == reply.intent /\ ~reply.question
            IN /\ response' = reply
               /\ IF should_goad(indicates_tool_intent, reply.question, res)
                  THEN /\ history' = push_back(push_back(history, AssistantReply),
                                               GoadMessage)
                       /\ Continue(res)
                  ELSE /\ history' = push_back(history, AssistantReply)
                       /\ pc' = "done"
                       /\ result' = [res EXCEPT !.success = TRUE,
                                                !.final_response = "response"]
    /\ consecutive_errors' = 0
    /\ token_limit_retries' = 0
    /\ chat_log' = Append(chat_log, "ok")
    /\ calls' = << >>
    /\ outcomes' = << >>
    /\ tool_results' = NoToolResults
    /\ UNCHANGED aux_vars
    /\ UNCHANGED <<config, history_before, initial_history_size, recent_tool_calls>>

(* an iteration whose model call succeeds with a text holding tool calls     *)
ChatRepliesCalls ==
    /\ pc = "loop"
    /\ \E reply \in Replies :
         /\ parse_tool_calls(reply) # << >>
         /\ LET res == [result EXCEPT !.iterations = @ + 1]
                st == ProcessCalls(parse_tool_calls(reply), 1, res.iterations,
                        [seen |-> {}, recent |-> recent_tool_calls,
                         made |-> res.tool_calls_made, used |-> res.tools_used,
                         cont |-> TRUE, outs |-> << >>,
                         results |-> << >>, executed |-> << >>])
                res2 == [res EXCEPT !.tool_calls_made = st.made,
                                    !.tools_used = st.used]
            IN /\ response' = reply
               /\ calls' = parse_tool_calls(reply)
               /\ outcomes' = st.outs
               /\ tool_results' = [results |-> st.results, executed |-> st.executed]
               /\ recent_tool_calls' = st.recent
               /\ history' = push_back(push_back(history, AssistantReply),
                                          ToolResultsMessage)
               /\ IF ~st.cont
                  THEN /\ pc' = "done"
                       /\ result' = [res2 EXCEPT !.success = TRUE,
                                       !.final_response = "text_or_task_completed"]
                  ELSE Continue(res2)
    /\ consecutive_errors' = 0
    /\ token_limit_retries' = 0
    /\ chat_log' = Append(chat_log, "ok")
    /\ UNCHANGED aux_vars
    /\ UNCHANGED <<config, history_before, initial_history_size>>

Next ==
    \/ RunNotConfigured
    \/ RunStart
    \/ ChatTokenLimit
    \/ ChatFails
    \/ ChatRepliesText
    \/ ChatRepliesCalls

Spec == Init /\ [][Next]_vars

(* ======================================================================== *)
(* Strategy 1 on the text of one tool-result message                        *)
(* ======================================================================== *)
(* no run is in progress                                                    *)
IdleRun ==
    /\ pc = "idle"
    /\ config = [max_iterations |-> 1, max_consecutive_errors |-> 1]
    /\ history = << >>
    /\ history_before = << >>
    /\ initial_history_size = 0
    /\ consecutive_errors = 0
    /\ token_limit_retries = 0
    /\ recent_tool_calls = << >>
    /\ result = EmptyResult
    /\ calls = << >>
    /\ outcomes = << >>
    /\ tool_results = NoToolResults
    /\ chat_log = << >>
    /\ response = NoResponse

InitTrunc ==
    /\ IdleRun
    /\ trunc = NoMessage
    /\ ctx = NoCycle
    /\ sandbox = NoSandbox
    /\ IdleMore

(* results_oss << format_tool_result(call.tool_name, tool_result) << "\n"    *)
AppendToolResult ==
    /\ ~trunc.done
    /\ Len(trunc.content) < MaxBlocks
    /\ \E tool \in ToolNames, success \in BOOLEAN, body \in BodySizes :
         trunc' = [trunc EXCEPT
                     !.content = Append(@, format_tool_result(tool, success, body))]
    /\ UNCHANGED <<run_vars, ctx, sandbox, more_vars>>

(* the body of the strategy 1 loop for the user message holding the results  *)
TruncateStrategyOne ==
    /\ ~trunc.done
    /\ trunc.content # << >>
    /\ trunc' = [trunc EXCEPT !.out = TruncateToolResult(trunc.content),
                              !.done = TRUE]
    /\ UNCHANGED <<run_vars, ctx, sandbox, more_vars>>

NextTrunc ==
    \/ AppendToolResult
    \/ TruncateStrategyOne

SpecTrunc == InitTrunc /\ [][NextTrunc]_vars

(* ======================================================================== *)
(* The context manager and the provider that drives it                      *)
(* ======================================================================== *)
InitCtx ==
    /\ IdleRun
    /\ trunc = NoMessage
    /\ sandbox = NoSandbox
    /\ IdleMore
    /\ \E cfg \in CtxConfigs, system_prompt \in {0, 500},
          h \in SeqsUpTo(CtxMessages, MaxCtxLen) :
         ctx = [NoCycle EXCEPT !.phase = "ready", !.config = cfg,
                               !.system_prompt = system_prompt,
                               !.history = h, !.before = h]

(* a call of ContextManager::estimate_usage                                  *)
EstimateUsage ==
    /\ ctx.phase = "ready"
    /\ ctx' = [ctx EXCEPT
                 !.phase = "estimated",
                 !.usage = estimate_usage(ctx.config, ctx.history, ctx.system_prompt)]
    /\ UNCHANGED <<run_vars, trunc, sandbox, more_vars>>

(* a call of ContextManager::perform_resume_cycle on the history             *)
PerformResumeCycle ==
    /\ ctx.phase = "ready"
    /\ \E ai \in Providers, reply \in Completions, mem \in MemoryTools :
         LET env == [ai |-> ai, cfg |-> ctx.config,
                     system_prompt |-> ctx.system_prompt, reply |-> reply,
                     mem |-> mem]
             c == perform_resume_cycle(env, ctx.history, 1)
         IN ctx' = [ctx EXCEPT
                      !.phase = "cycled",
                      !.ai = ai,
                      !.history = c.history,
                      !.usage = IF c.ok
                                THEN estimate_usage(ctx.config, c.history,
                                                    ctx.system_prompt)
                                ELSE @,
                      !.outcome = [ok |-> c.ok, generated |-> c.generated,
                                   saved |-> c.saved, chat_calls |-> c.chat_calls,
                                   cycles |-> c.cycles, managed |-> c.managed]]
    /\ UNCHANGED <<run_vars, trunc, sandbox, more_vars>>

(* a call of OpenRouterAI::chat with the history and the agent's options     *)
ProviderChat ==
    /\ ctx.phase = "ready"
    /\ \E ai \in Providers, reply \in Completions :
         /\ ~ai.null
         /\ LET env == [ai |-> ai, cfg |-> ctx.config,
                        system_prompt |-> ctx.system_prompt, reply |-> reply,
                        mem |-> [available |-> FALSE, file_ok |-> FALSE,
                                 db_ok |-> FALSE]]
                r == chat(env, ctx.history, default_options, 0)
            IN ctx' = [ctx EXCEPT
                         !.phase = "chatted",
                         !.ai = ai,
                         !.outcome = [ok |-> r.success, generated |-> FALSE,
                                      saved |-> "not_reached",
                                      chat_calls |-> r.chat_calls,
                                      cycles |-> r.cycles, managed |-> r.managed],
                         !.reply = reply,
                         !.resumed = r.resumed, !.rebuilt = r.rebuilt]
    /\ UNCHANGED <<run_vars, trunc, sandbox, more_vars>>

(* the next iteration of Agent::run after a successful model call: the run   *)
(* pushes the reply and a user turn (the tool results or the nudge) on its   *)
(* own history and calls chat with that history again                        *)
AgentChatsAgain ==
    /\ ctx.phase = "chatted"
    /\ ctx.outcome.ok
    /\ \E reply \in Completions, turn \in {100, 5000} :
         LET appended == <<CtxMsg("assistant", ctx.reply.content, FALSE),
                           CtxMsg("user", turn, turn > 1000)>>
             h == ctx.history \o appended
             env == [ai |-> ctx.ai, cfg |-> ctx.config,
                     system_prompt |-> ctx.system_prompt, reply |-> reply,
                     mem |-> [available |-> FALSE, file_ok |-> FALSE,
                              db_ok |-> FALSE]]
             r == chat(env, h, default_options, 0)
         IN ctx' = [ctx EXCEPT
                      !.phase = "chatted_again",
                      !.history = h,
                      !.outcome = [ok |-> r.success, generated |-> FALSE,
                                   saved |-> "not_reached",
                                   chat_calls |-> r.chat_calls,
                                   cycles |-> r.cycles, managed |-> r.managed],
                      !.reply = reply,
                      !.resumed = r.resumed, !.rebuilt = r.rebuilt,
                      !.previous = [resumed |-> ctx.resumed,
                                    rebuilt |-> ctx.rebuilt,
                                    appended |-> appended]]
    /\ UNCHANGED <<run_vars, trunc, sandbox, more_vars>>

NextCtx ==
    \/ EstimateUsage
    \/ PerformResumeCycle
    \/ ProviderChat
    \/ AgentChatsAgain

SpecCtx == InitCtx /\ [][NextCtx]_vars

(* ======================================================================== *)
(* The sandbox                                                              *)
(* ======================================================================== *)
InitSandbox ==
    /\ IdleRun
    /\ trunc = NoMessage
    /\ ctx = NoCycle
    /\ IdleMore
    /\ \E supported \in BOOLEAN :
         sandbox = [NoSandbox EXCEPT !.supported_ = supported]

AllowPath ==
    /\ Len(sandbox.extra_allowed_paths_) < MaxExtra
    /\ \E path \in ExtraDirs :
         sandbox' = [allow_path(sandbox, path) EXCEPT
                       !.last_call = "allow_path", !.last_path = path]
    /\ UNCHANGED <<run_vars, trunc, ctx, more_vars>>

Activate ==
    /\ \E outcome \in ActivationOutcomes, granted_extra \in SUBSET ExtraDirs :
         sandbox' = [activate(sandbox, outcome, granted_extra) EXCEPT
                       !.last_call = "activate", !.last_path = << >>]
    /\ UNCHANGED <<run_vars, trunc, ctx, more_vars>>

IsPathAllowed ==
    /\ \E p \in QueriedPaths :
         sandbox' = [sandbox EXCEPT
                       !.last_call = "is_path_allowed", !.last_path = p,
                       !.last_result = is_path_allowed(sandbox, p)]
    /\ UNCHANGED <<run_vars, trunc, ctx, more_vars>>

NextSandbox ==
    \/ AllowPath
    \/ Activate
    \/ IsPathAllowed

SpecSandbox == InitSandbox /\ [][NextSandbox]_vars

(* ======================================================================== *)
(* Application::init                                                        *)
(* ======================================================================== *)
InitApp ==
    /\ IdleRun
    /\ trunc = NoMessage
    /\ ctx = NoCycle
    /\ sandbox = NoSandbox
    /\ chunker = NoChunker
    /\ parse = NoParse
    /\ memory = NoStore
    /\ tasks = NoTasks
    /\ session = NoSession
    /\ \E enabled \in BOOLEAN, plugins \in 0..MaxPlugins :
         app = [NoApp EXCEPT !.pc = "load_config", !.sandbox_enabled = enabled,
                             !.plugins = plugins]

app_frame == <<old_vars, chunker, parse, memory, tasks, session>>

(* config_.load_file(config_file_): on failure init returns false            *)
AppLoadConfig ==
    /\ app.pc = "load_config"
    /\ \E loaded \in BOOLEAN :
         app' = [app EXCEPT !.pc = IF loaded THEN step_after("load_config")
                                   ELSE "failed"]
    /\ UNCHANGED app_frame

AppSetupPlugins ==
    /\ app.pc = "setup_plugins"
    /\ \E loads \in [1..app.plugins -> BOOLEAN] :
         app' = [app EXCEPT !.pc = step_after("setup_plugins"),
                            !.events = @ \o load_from_config(loads)]
    /\ UNCHANGED app_frame

AppSetupSandbox ==
    /\ app.pc = "setup_sandbox"
    /\ \E init_ok \in BOOLEAN :
         app' = [setup_sandbox(app, init_ok) EXCEPT
                   !.pc = step_after("setup_sandbox")]
    /\ UNCHANGED app_frame

(* setup_logging, setup_channels, setup_skills, setup_system_prompt,         *)
(* setup_agent, warmup_ai and the monitor: no library is loaded and the      *)
(* sandbox is not touched                                                    *)
AppSetupComponents ==
    /\ app.pc = "setup_components"
    /\ app' = [app EXCEPT !.pc = step_after("setup_components")]
    /\ UNCHANGED app_frame

AppActivateSandbox ==
    /\ app.pc = "activate_sandbox"
    /\ \E activate_ok \in BOOLEAN :
         app' = [activate_sandbox(app, activate_ok) EXCEPT
                   !.pc = step_after("activate_sandbox")]
    /\ UNCHANGED app_frame

NextApp ==
    \/ AppLoadConfig
    \/ AppSetupPlugins
    \/ AppSetupSandbox
    \/ AppSetupComponents
    \/ AppActivateSandbox

SpecApp == InitApp /\ [][NextApp]_vars

(* ======================================================================== *)
(* Content chunker: store, get_chunk, remove, clear and the chunking branch *)
(* of Agent::format_tool_result                                             *)
(* ======================================================================== *)
InitChunker ==
    /\ IdleRun
    /\ trunc = NoMessage
    /\ ctx = NoCycle
    /\ sandbox = NoSandbox
    /\ app = NoApp
    /\ parse = NoParse
    /\ memory = NoStore
    /\ tasks = NoTasks
    /\ session = NoSession
    /\ \E impl \in ChunkerImpls, cfg \in AgentConfigs :
         chunker = [NoChunker EXCEPT !.impl = impl, !.config = cfg]

chunker_frame == <<old_vars, app, parse, memory, tasks, session>>

NoChunk == [error |-> "", start |-> 0, len |-> 0]

(* the call just made, its arguments and what it returned                    *)
Called(c, call, args, chunk, body) ==
    [c EXCEPT !.last_call = call, !.last_args = args, !.last_chunk = chunk,
              !.body = body]

ChunkerLive == ~chunker.crashed /\ chunker.next_id_ <= MaxStores

(* a caller stores a content with a chunk size of its own                    *)
ChunkerStore ==
    /\ ChunkerLive
    /\ \E size \in ContentSizes, chunk_size \in ChunkSizes,
          ub \in UndefinedDivisions :
         chunker' = Called(store(chunker, size, "caller", chunk_size, ub),
                           "store", <<size, chunk_size>>, NoChunk, NoBody)
    /\ UNCHANGED chunker_frame

(* format_tool_result on a successful result, called by a run that was      *)
(* given run_config: the test reads the member config_, and an output over   *)
(* the limit is stored with the chunk size left at the default argument 0    *)
ChunkerFormatToolResult ==
    /\ ChunkerLive
    /\ \E output \in {50, 500}, ub \in UndefinedDivisions,
          run_config \in {chunker.config, ContinueConfig} :
         IF chunker.config.auto_chunk_large_results
            /\ output > chunker.config.max_tool_result_size
         THEN LET c2 == store(chunker, output, "tool", 0, ub)
              IN chunker' = Called(c2, "format_tool_result",
                                   <<output, 0, run_config>>, NoChunk,
                                   IF c2.crashed THEN NoBody
                                   ELSE format_body(chunker.config, c2,
                                                    chunker.next_id_, output))
         ELSE chunker' = Called(chunker, "format_tool_result",
                                <<output, 0, run_config>>,
                                NoChunk, [NoBody EXCEPT !.output = output])
    /\ UNCHANGED chunker_frame

ChunkerGetChunk ==
    /\ ~chunker.crashed
    /\ \E id \in 1..MaxStores, chunk_index \in 0..3 :
         chunker' = Called(chunker, "get_chunk", <<id, chunk_index>>,
                           get_chunk(chunker, id, chunk_index), NoBody)
    /\ UNCHANGED chunker_frame

ChunkerRemove ==
    /\ ~chunker.crashed
    /\ \E id \in 1..MaxStores :
         chunker' = Called(remove(chunker, id), "remove", <<id>>,
                           NoChunk, NoBody)
    /\ UNCHANGED chunker_frame

ChunkerClear ==
    /\ ~chunker.crashed
    /\ chunker' = Called(clear(chunker), "clear", << >>, NoChunk, NoBody)
    /\ UNCHANGED chunker_frame

NextChunker ==
    \/ ChunkerStore
    \/ ChunkerFormatToolResult
    \/ ChunkerGetChunk
    \/ ChunkerRemove
    \/ ChunkerClear

SpecChunker == InitChunker /\ [][NextChunker]_vars

(* ======================================================================== *)
(* A completion on its way to the Agent: the adapter's normalisation of      *)
(* native tool calls, then Agent::parse_tool_calls                           *)
(* ======================================================================== *)
InitParse ==
    /\ IdleRun
    /\ trunc = NoMessage
    /\ ctx = NoCycle
    /\ sandbox = NoSandbox
    /\ app = NoApp
    /\ chunker = NoChunker
    /\ memory = NoStore
    /\ tasks = NoTasks
    /\ session = NoSession
    /\ \E adapter \in Adapters, message \in Messages :
         parse = [NoParse EXCEPT !.pc = "response", !.adapter = adapter,
                                 !.message = message]

parse_frame == <<old_vars, app, chunker, memory, tasks, session>>

(* the adapter turns the provider's response into a completion result        *)
ParseProviderCompletes ==
    /\ parse.pc = "response"
    /\ parse' = [parse EXCEPT !.pc = "completion",
                   !.content = completion_content(parse.adapter, parse.message)]
    /\ UNCHANGED parse_frame

(* the Agent parses the tool calls of the completion's content               *)
ParseToolCalls ==
    /\ parse.pc = "completion"
    /\ parse' = [parse EXCEPT !.pc = "parsed",
                   !.scanned = scan_tool_calls(parse.content, 1)]
    /\ UNCHANGED parse_frame

NextParse ==
    \/ ParseProviderCompletes
    \/ ParseToolCalls

SpecParse == InitParse /\ [][NextParse]_vars

(* ======================================================================== *)
(* Memory entry store: upsert, get and remove on the memories table          *)
(* ======================================================================== *)
InitMemory ==
    /\ IdleRun
    /\ trunc = NoMessage
    /\ ctx = NoCycle
    /\ sandbox = NoSandbox
    /\ app = NoApp
    /\ chunker = NoChunker
    /\ parse = NoParse
    /\ \E db_open \in BOOLEAN : memory = [NoStore EXCEPT !.db_open = db_open]
    /\ tasks = NoTasks
    /\ session = NoSession

memory_frame == <<old_vars, app, chunker, parse, tasks, session>>

MemoryUpsert ==
    /\ \E entry \in MemoryEntries, step_done \in BOOLEAN :
         memory' = [upsert(memory, entry, step_done) EXCEPT
                      !.last_call = "upsert", !.last_entry = entry,
                      !.last_id = entry.id, !.out = DefaultEntry]
    /\ UNCHANGED memory_frame

MemoryGet ==
    /\ \E id \in EntryIds :
         memory' = [get(memory, id) EXCEPT
                      !.last_call = "get", !.last_entry = DefaultEntry,
                      !.last_id = id]
    /\ UNCHANGED memory_frame

MemoryRemove ==
    /\ \E id \in EntryIds, step_done \in BOOLEAN :
         memory' = [remove_entry(memory, id, step_done) EXCEPT
                      !.last_call = "remove", !.last_entry = DefaultEntry,
                      !.last_id = id, !.out = DefaultEntry]
    /\ UNCHANGED memory_frame

NextMemory ==
    \/ MemoryUpsert
    \/ MemoryGet
    \/ MemoryRemove

SpecMemory == InitMemory /\ [][NextMemory]_vars

(* ======================================================================== *)
(* Task store: upsert, remove and list on the tasks table                    *)
(* ======================================================================== *)
InitTasks ==
    /\ IdleRun
    /\ trunc = NoMessage
    /\ ctx = NoCycle
    /\ sandbox = NoSandbox
    /\ app = NoApp
    /\ chunker = NoChunker
    /\ parse = NoParse
    /\ memory = NoStore
    /\ \E db_open \in BOOLEAN : tasks = [NoTasks EXCEPT !.db_open = db_open]
    /\ session = NoSession

tasks_frame == <<old_vars, app, chunker, parse, memory, session>>

TaskUpsert ==
    /\ \E task \in MemoryTasks, step_done \in BOOLEAN :
         tasks' = [task_upsert(tasks, task, step_done) EXCEPT
                     !.last_call = "upsert", !.include_completed = FALSE,
                     !.listed = << >>]
    /\ UNCHANGED tasks_frame

TaskRemove ==
    /\ \E id \in TaskIds, step_done \in BOOLEAN :
         tasks' = [task_remove(tasks, id, step_done) EXCEPT
                     !.last_call = "remove", !.include_completed = FALSE,
                     !.listed = << >>]
    /\ UNCHANGED tasks_frame

TaskList ==
    /\ \E include_completed \in BOOLEAN, o \in RowOrders :
         tasks' = [tasks EXCEPT
                     !.last_call = "list", !.returned = FALSE,
                     !.include_completed = include_completed,
                     !.listed = list(tasks, include_completed, o)]
    /\ UNCHANGED tasks_frame

NextTasks ==
    \/ TaskUpsert
    \/ TaskRemove
    \/ TaskList

SpecTasks == InitTasks /\ [][NextTasks]_vars

(* ======================================================================== *)
(* A session: the host's run on a message, then /new, /continue and /cancel  *)
(* ======================================================================== *)
InitSession ==
    /\ pc = "start"
    /\ config \in Configs
    /\ history = << >>
    /\ history_before = << >>
    /\ initial_history_size = 0
    /\ consecutive_errors = 0
    /\ token_limit_retries = 0
    /\ recent_tool_calls = << >>
    /\ result = EmptyResult
    /\ calls = << >>
    /\ outcomes = << >>
    /\ tool_results = NoToolResults
    /\ chat_log = << >>
    /\ response = NoResponse
    /\ trunc = NoMessage
    /\ ctx = NoCycle
    /\ sandbox = NoSandbox
    /\ app = NoApp
    /\ chunker = NoChunker
    /\ parse = NoParse
    /\ memory = NoStore
    /\ tasks = NoTasks
    /\ \E ai_configured \in BOOLEAN :
         session = [NoSession EXCEPT !.pc = "host_run",
                                     !.ai_configured = ai_configured,
                                     !.last_command = "message"]

session_frame == <<trunc, ctx, sandbox, app, chunker, parse, memory, tasks>>

(* one step of the Agent::run that the host or /continue has started; the    *)
(* session's history is the vector the run works on.  A run is followed for  *)
(* its first MaxSessionCalls model calls and while the history holds at most *)
(* MaxSessionLen messages.                                                   *)
SessionRun ==
    /\ session.pc \in {"host_run", "continue_run"}
    /\ \/ ~session.ai_configured /\ RunNotConfigured
       \/ session.ai_configured /\ RunStart
       \/ ChatTokenLimit
       \/ ChatFails
       \/ ChatRepliesText
       \/ ChatRepliesCalls
    /\ Len(history') <= MaxSessionLen
    /\ Len(chat_log') <= MaxSessionCalls

(* Agent::run has returned: its result and the history stay with the caller, *)
(* its local variables are gone                                              *)
RunReturned ==
    /\ pc' = "idle"
    /\ consecutive_errors' = 0
    /\ token_limit_retries' = 0
    /\ recent_tool_calls' = << >>
    /\ calls' = << >>
    /\ outcomes' = << >>
    /\ tool_results' = NoToolResults
    /\ chat_log' = << >>
    /\ response' = NoResponse
    /\ initial_history_size' = 0
    /\ UNCHANGED <<config, history, history_before, result>>

(* the host after its run returned: a paused run is recorded in the scratch  *)
(* map for /continue and /cancel                                             *)
HostReturns ==
    /\ session.pc = "host_run"
    /\ pc = "done"
    /\ session' = [session EXCEPT
                     !.pc = "idle",
                     !.data = store_paused(@, result),
                     !.reply = IF result.paused THEN "paused"
                               ELSE IF result.success THEN "completed"
                               ELSE "failed",
                     !.ran = TRUE]
    /\ RunReturned
    /\ UNCHANGED session_frame

(* cmd_new                                                                   *)
CmdNew ==
    /\ session.pc = "idle"
    /\ history' = clear_history(history)
    /\ session' = [session EXCEPT !.last_command = "new", !.reply = "cleared",
                                  !.ran = FALSE]
    /\ UNCHANGED <<pc, config, history_before, initial_history_size,
                   consecutive_errors, token_limit_retries, recent_tool_calls,
                   result, calls, outcomes, tool_results, chat_log, response,
                   session_frame>>

(* cmd_cancel                                                                *)
CmdCancel ==
    /\ session.pc = "idle"
    /\ session' = IF "agent_paused" \notin session.data
                  THEN [session EXCEPT !.last_command = "cancel",
                                       !.reply = "no_paused_task", !.ran = FALSE]
                  ELSE [session EXCEPT !.last_command = "cancel",
                                       !.data = remove_paused(@),
                                       !.reply = "cancelled", !.ran = FALSE]
    /\ UNCHANGED <<run_vars, session_frame>>

(* cmd_continue up to its call of Agent::run                                 *)
CmdContinue ==
    /\ session.pc = "idle"
    /\ \E args \in ContinueArgs :
         LET budget == additional_iterations(args)
             refused ==
               IF "agent_paused" \notin session.data THEN "no_paused_task"
               ELSE IF ~session.ai_configured THEN "ai_not_configured"
               ELSE IF ~budget.accepted THEN "invalid_argument"
               ELSE "none"
         IN IF refused # "none"
            THEN /\ session' = [session EXCEPT !.last_command = "continue",
                                               !.reply = refused, !.ran = FALSE]
                 /\ UNCHANGED run_vars
            ELSE /\ session' = [session EXCEPT !.pc = "continue_run",
                                               !.last_command = "continue",
                                               !.data = remove_paused(@),
                                               !.reply = "none", !.ran = TRUE]
                 /\ pc' = "start"
                 /\ config' = [max_iterations |-> budget.n,
                               max_consecutive_errors |-> 3]
                 /\ history_before' = history
                 /\ initial_history_size' = 0
                 /\ consecutive_errors' = 0
                 /\ token_limit_retries' = 0
                 /\ recent_tool_calls' = << >>
                 /\ result' = EmptyResult
                 /\ calls' = << >>
                 /\ outcomes' = << >>
                 /\ tool_results' = NoToolResults
                 /\ chat_log' = << >>
                 /\ response' = NoResponse
                 /\ UNCHANGED history
    /\ UNCHANGED session_frame

(* cmd_continue after Agent::run returned                                    *)
CmdContinueReturns ==
    /\ session.pc = "continue_run"
    /\ pc = "done"
    /\ session' = [session EXCEPT
                     !.pc = "idle",
                     !.data = store_paused(@, result),
                     !.reply = IF result.paused THEN "paused"
                               ELSE IF result.success THEN "completed"
                               ELSE "failed"]
    /\ RunReturned
    /\ UNCHANGED session_frame

NextSession ==
    \/ SessionRun
    \/ HostReturns
    \/ CmdNew
    \/ CmdCancel
    \/ CmdContinue
    \/ CmdContinueReturns

SpecSession == InitSession /\ [][NextSession]_vars

(* ======================================================================== *)
(* Properties                                                               *)
(* ======================================================================== *)
Done == pc = "done"
Completed == Done /\ result.success /\ ~result.paused
Paused == Done /\ result.paused
Failed == Done /\ ~result.success /\ ~result.paused

Count(q, S) == Cardinality({ i \in 1..Len(q) : q[i] \in S })

(* index of the last successful model call in the log, 0 if there is none    *)
LastIndexOf(q, S) ==
    IF \E i \in 1..Len(q) : q[i] \in S
    THEN CHOOSE i \in 1..Len(q) : q[i] \in S /\ \A j \in (i + 1)..Len(q) : q[j] \notin S
    ELSE 0

(* the log entries after the last entry that lies in S                       *)
Since(q, S) == SubSeq(q, LastIndexOf(q, S) + 1, Len(q))

Truncated == IsMember("context_recovered", chat_log)

(* C1: every failed run leaves the history as long as it was before the run  *)
C1_FailedRunRestoresLength ==
    Failed => Len(history) = Len(history_before)

(* C2 as stated: every completed run leaves the history at least as long as  *)
(* before, with the messages it had before the run unchanged at its front,   *)
(* also when token-limit recovery truncated the history during the run       *)
C2_CompletedRunKeepsPrefix_Original ==
    Completed =>
        /\ Len(history) >= Len(history_before)
        /\ SubSeq(history, 1, Len(history_before)) = history_before

(* C2 amended: every completed run during which token-limit recovery did not *)
(* truncate the history leaves the history at least as long as before, with  *)
(* the messages it had before the run unchanged at its front                 *)
C2_CompletedRunKeepsPrefix ==
    (Completed /\ ~Truncated) =>
        /\ Len(history) >= Len(history_before)
        /\ SubSeq(history, 1, Len(history_before)) = history_before

C2_Witness ==
    /\ Completed /\ ~Truncated
    /\ Len(history_before) >= 3
    /\ IsMember("error", chat_log)
    /\ result.tool_calls_made >= 1

(* C3: the run makes at most max_iterations model calls, result.iterations   *)
(* counts them and never exceeds max_iterations, and the run has returned    *)
(* once max_iterations model calls were made, whatever their outcomes        *)
C3_AtMostMaxIterationsModelCalls ==
    /\ result.iterations = Len(chat_log)
    /\ result.iterations <= config.max_iterations
    /\ (Len(chat_log) = config.max_iterations => Done)

C3_Witness ==
    /\ Done
    /\ Len(chat_log) = MaxIterations
    /\ IsMember("error", chat_log)
    /\ IsMember("context_recovered", chat_log)
    /\ IsMember("ok", chat_log)

(* C4: an iteration that is the max_iterations-th one and ends neither in a  *)
(* successful nor in a failed return makes the run return success=false,     *)
(* paused=true, iterations=max_iterations and a pause message that holds     *)
(* "/continue" and "/cancel"                                                 *)
C4_PauseAtMaxIterations ==
    [][ (/\ pc = "loop"
         /\ result.iterations + 1 = config.max_iterations
         /\ ~result'.success
         /\ result'.error = "")
        => (/\ pc' = "done"
            /\ result'.paused
            /\ ~result'.success
            /\ result'.iterations = config.max_iterations
            /\ {"/continue", "/cancel"} \subseteq result'.pause_message) ]_vars

C4_Witness ==
    /\ Paused
    /\ config.max_iterations = MaxIterations
    /\ result.iterations = MaxIterations
    /\ ~Truncated
    /\ Len(history) = Len(history_before) + 1 + 2 * MaxIterations
    /\ \A k \in 1..MaxIterations :
          history[Len(history_before) + 1 + 2 * k].text = "tool_results"

(* C5: a returned result is completed (success, not paused), paused (paused, *)
(* not success) or failed (neither, with a non-empty error), and exactly one *)
(* of the three                                                              *)
C5_ResultInExactlyOneState ==
    Done =>
        /\ ~(result.success /\ result.paused)
        /\ (result.success \/ result.paused \/ result.error # "")
        /\ (result.error # "" => ~result.success /\ ~result.paused)

C5_Witness ==
    /\ Failed
    /\ result.error = "Too many consecutive AI errors"
    /\ IsMember("ok", chat_log)

ContextEntries == {"context_recovered", "context_stuck", "context_exhausted"}
SaturationError == "Too many consecutive AI errors"

C7_AtMostTwoRecoveryAttempts ==
    LET tail == Since(chat_log, {"ok"})
    IN /\ Count(tail, {"context_recovered", "context_stuck"}) <= max_token_limit_retries
       /\ (pc # "start" => token_limit_retries = Count(tail, ContextEntries))
       /\ (Count(tail, ContextEntries) > max_token_limit_retries =>
             /\ chat_log[Len(chat_log)] = "context_exhausted"
             /\ Failed)

C7_Witness ==
    /\ Failed
    /\ Len(chat_log) = 3
    /\ chat_log[1] = "context_recovered"
    /\ chat_log[2] = "context_recovered"
    /\ chat_log[3] = "context_exhausted"

Keys(cs) == { dedup_key(cs[i]) : i \in 1..Len(cs) }

ExecutedKeys(cs, outs) ==
    { dedup_key(cs[i]) : i \in { j \in 1..Len(cs) : outs[j] = "executed" } }

FirstOccurrence(cs, i) == \A j \in 1..(i - 1) : dedup_key(cs[j]) # dedup_key(cs[i])

(* C8: when iterations 1 and 2 emit the same call, the call is executed in   *)
(* iteration 1 and not in iteration 2, where its result is the "already made *)
(* in the previous iteration" text, and tool_calls_made is 1 after both      *)
C8_RepeatInSecondIterationSkipped ==
    [][ (pc = "loop" /\ result.iterations = 1 /\ calls # << >> /\ calls' # << >>)
        => /\ \A i \in 1..Len(calls) :
                FirstOccurrence(calls, i) => outcomes[i] = "executed"
           /\ \A i \in 1..Len(calls') :
                dedup_key(calls'[i]) \in Keys(calls) =>
                    /\ outcomes'[i] # "executed"
                    /\ FirstOccurrence(calls', i) => outcomes'[i] = "previous_iteration"
           /\ (Len(calls) = 1 /\ calls' = calls =>
                 /\ result.tool_calls_made = 1
                 /\ result'.tool_calls_made = 1) ]_vars

C8_Witness ==
    /\ result.iterations = 2
    /\ Len(calls) = 1
    /\ outcomes = <<"previous_iteration">>
    /\ result.tool_calls_made = 1

(* C9 as stated: in an iteration that follows an iteration with tool calls,  *)
(* no call whose key the model emitted in that previous iteration is         *)
(* executed, also when the previous occurrence was itself suppressed         *)
C9_RepeatOfEmittedSkipped_Original ==
    [][ (pc = "loop" /\ calls # << >> /\ calls' # << >>)
        => \A i \in 1..Len(calls') :
              dedup_key(calls'[i]) \in Keys(calls) => outcomes'[i] # "executed" ]_vars

(* C9 amended: in an iteration that follows an iteration with tool calls, a  *)
(* call whose key was executed in that previous iteration is not executed    *)
(* and its first occurrence gets the "previous iteration" result; a call     *)
(* whose previous occurrence was suppressed by this guard is executed again  *)
C9_RepeatOfExecutedSkipped ==
    [][ (pc = "loop" /\ calls # << >> /\ calls' # << >>)
        => \A i \in 1..Len(calls') :
              /\ dedup_key(calls'[i]) \in ExecutedKeys(calls, outcomes) =>
                    /\ outcomes'[i] # "executed"
                    /\ FirstOccurrence(calls', i) => outcomes'[i] = "previous_iteration"
              /\ (/\ FirstOccurrence(calls', i)
                  /\ \E j \in 1..Len(calls) :
                        /\ dedup_key(calls[j]) = dedup_key(calls'[i])
                        /\ outcomes[j] = "previous_iteration")
                 => outcomes'[i] = "executed" ]_vars

C9_Witness ==
    /\ result.iterations = 3
    /\ Len(calls) = 1
    /\ outcomes = <<"executed">>
    /\ result.tool_calls_made = 2
    /\ DOMAIN recent_tool_calls = Keys(calls)
    /\ Len(history) >= 3
    /\ history[Len(history) - 2].text = "tool_results"
    /\ chat_log = <<"ok", "ok", "ok">>

(* C10 as stated: a key that occurs two or more times in one reply is        *)
(* executed exactly once for that reply and every later occurrence gets the  *)
(* "duplicate skipped" result                                                *)
C10_DuplicateInReplyExecutedOnce_Original ==
    \A i \in 1..Len(calls) :
        (\E j \in 1..Len(calls) : j # i /\ dedup_key(calls[j]) = dedup_key(calls[i]))
        => /\ Cardinality({ j \in 1..Len(calls) :
                              /\ dedup_key(calls[j]) = dedup_key(calls[i])
                              /\ outcomes[j] = "executed" }) = 1
           /\ (~FirstOccurrence(calls, i) => outcomes[i] = "duplicate_in_response")

(* C10 amended: of a key that occurs two or more times in one reply every    *)
(* later occurrence gets the "duplicate skipped" result and only the first   *)
(* occurrence can be executed: it is executed unless the key was executed in *)
(* the immediately preceding iteration, and then it gets the "previous       *)
(* iteration" result and the tool is not executed for that reply             *)
C10_DuplicateInReplyExecutedAtMostOnce ==
    [][ /\ Len(outcomes') = Len(calls')
        /\ \A i \in 1..Len(calls') :
             IF FirstOccurrence(calls', i)
             THEN IF dedup_key(calls'[i]) \in ExecutedKeys(calls, outcomes)
                  THEN outcomes'[i] = "previous_iteration"
                  ELSE outcomes'[i] = "executed"
             ELSE outcomes'[i] = "duplicate_in_response" ]_vars

C10_Witness ==
    /\ Len(calls) = 2
    /\ dedup_key(calls[1]) = dedup_key(calls[2])
    /\ outcomes = <<"executed", "duplicate_in_response">>
    /\ result.tool_calls_made = 1

(* a step in which the model answered with a text without tool calls that    *)
(* holds an intent phrase and is not classified as a question                *)
IntentReplyStep ==
    /\ pc = "loop"
    /\ Len(chat_log') = Len(chat_log) + 1
    /\ response'.read
    /\ parse_tool_calls(response') = << >>
    /\ response'.intent
    /\ ~response'.question

(* C11 as stated: in every iteration, the last allowed one included, a reply *)
(* without tool calls that holds an intent phrase and is no question is      *)
(* appended followed by a goad turn and does not end the run successfully    *)
C11_IntentReplyIsGoaded_Original ==
    [][ IntentReplyStep =>
          /\ history' = history \o <<AssistantReply, GoadMessage>>
          /\ ~result'.success ]_vars

(* C11 amended: in every iteration but the last one allowed by               *)
(* max_iterations such a reply is appended followed by a goad turn and the   *)
(* run goes on; in the last allowed iteration only the reply is appended and *)
(* the run ends successfully with that reply as its final response           *)
C11_IntentReplyIsGoaded ==
    [][ IntentReplyStep =>
          IF result.iterations + 1 < config.max_iterations
          THEN /\ history' = history \o <<AssistantReply, GoadMessage>>
               /\ ~result'.success
               /\ pc' = "loop"
          ELSE /\ history' = Append(history, AssistantReply)
               /\ pc' = "done"
               /\ result'.success /\ ~result'.paused
               /\ result'.final_response = "response" ]_vars

C11_Witness ==
    /\ pc = "loop"
    /\ result.iterations = 2
    /\ response.read /\ response.intent /\ ~response.question
    /\ response.calls = << >>
    /\ history[Len(history)] = GoadMessage
    /\ history[Len(history) - 1] = AssistantReply

(* C12: an iteration in which an executed tool returned                      *)
(* should_continue=false ends the run with success=true after the assistant  *)
(* reply and the tool-results user turn were appended; a run that has        *)
(* returned makes no further step, so no further model call                  *)
C12_StopRequestEndsRun ==
    [][ /\ pc # "done"
        /\ (/\ calls' # << >>
            /\ \E i \in 1..Len(calls') :
                  /\ outcomes'[i] = "executed"
                  /\ ~execute_tool(calls'[i]).should_continue)
           => /\ pc' = "done"
              /\ result'.success /\ ~result'.paused
              /\ history' = history \o <<AssistantReply, ToolResultsMessage>>
              /\ Len(chat_log') = Len(chat_log) + 1
              /\ result'.iterations = Len(chat_log') ]_vars

C12_Witness ==
    /\ Completed
    /\ result.final_response = "text_or_task_completed"
    /\ result.iterations = 2
    /\ Len(calls) = 2
    /\ calls[1].tool_name = "finish"
    /\ calls[2].tool_name = "echo"
    /\ outcomes = <<"executed", "executed">>

(* C13 as stated: strategy 1 changes only the body of an oversized          *)
(* tool-result turn: every block keeps its opening tag (tool name and       *)
(* success value) and its closing tag, nothing is added to it, and a        *)
(* shortened body is its first 2000 characters followed by the marker       *)
C13_OnlyBodyTruncated ==
    (trunc.done /\ trunc.out # trunc.content) =>
        /\ Len(trunc.out) = Len(trunc.content)
        /\ \A i \in 1..Len(trunc.out) :
             /\ i <= Len(trunc.content)
             /\ trunc.out[i].tool = trunc.content[i].tool
             /\ trunc.out[i].success = trunc.content[i].success
             /\ ~trunc.out[i].notice
             /\ trunc.out[i] # trunc.content[i] =>
                  (trunc.out[i].body = KeptChars /\ trunc.out[i].marker)

(* no two consecutive messages of h have the same role                       *)
Alternates(h) == \A i \in 1..(Len(h) - 1) : h[i].role # h[i + 1].role

Roles(h) == [i \in 1..Len(h) |-> h[i].role]

(* this step is an iteration in which try_truncate_history succeeded         *)
RecoveredStep == chat_log' = Append(chat_log, "context_recovered")

HasLargeToolResult(h) == \E i \in 1..Len(h) : IsLargeToolResult(h[i])

CycleDone == ctx.phase = "cycled"

(* C15 as stated: a resume cycle in which generating the resume failed, or   *)
(* in which persisting it failed with auto_save_memory on, reports failure   *)
(* and leaves the history as it was                                          *)
C15_FailedStepMeansNoOp_Original ==
    (CycleDone /\ (~ctx.outcome.generated \/ ctx.outcome.saved = "failed")) =>
        (~ctx.outcome.ok /\ ctx.history = ctx.before)

(* C15 amended: a cycle in which generating the resume failed reports        *)
(* failure and leaves the history as it was; a cycle that generated a resume *)
(* reports success and replaces the history, also when persisting the        *)
(* resume failed                                                             *)
C15_FailedGenerationMeansNoOp ==
    CycleDone =>
        /\ ~ctx.outcome.generated =>
             (~ctx.outcome.ok /\ ctx.history = ctx.before)
        /\ ctx.outcome.generated =>
             (ctx.outcome.ok /\ ctx.history # ctx.before)

(* a cycle on a non-empty history failed because the model call failed       *)
C15_Witness ==
    /\ CycleDone
    /\ ctx.outcome.chat_calls = 1
    /\ ~ctx.outcome.generated
    /\ ~ctx.outcome.ok
    /\ ctx.history = ctx.before
    /\ Len(ctx.before) = 2

(* C16: after every resume cycle that reports success, needs_resume on the   *)
(* rebuilt history, with the same system prompt and configuration, is false  *)
C16_NoResumeNeededAfterCycle ==
    (CycleDone /\ ctx.outcome.ok) =>
        ~needs_resume(ctx.config, ctx.history, ctx.system_prompt)

(* C17: a resume cycle run with a configured provider makes exactly one      *)
(* chat call, that call does no context management and starts no further     *)
(* cycle; a chat call of the agent therefore starts at most one cycle and    *)
(* makes one more chat call for it                                           *)
C17_ResumeMakesOneModelCall ==
    /\ (CycleDone /\ ~ctx.ai.null /\ ctx.ai.configured) =>
          /\ ctx.outcome.chat_calls = 1
          /\ ctx.outcome.cycles = 1
          /\ ~ctx.outcome.managed
    /\ ctx.phase = "chatted" =>
          /\ ctx.outcome.cycles <= 1
          /\ ctx.outcome.chat_calls = 1 + ctx.outcome.cycles

(* a chat call started a cycle on a history that, with the resume prompt     *)
(* appended, still is over the threshold                                     *)
C17_Witness ==
    /\ ctx.phase = "chatted"
    /\ ctx.outcome.cycles = 1
    /\ ctx.outcome.chat_calls = 2
    /\ budget_chars(ctx.config) = 12000
    /\ needs_resume(ctx.config,
                    Append(ctx.history, CtxMsg("user", ResumePromptSize, FALSE)),
                    ctx.system_prompt)

(* C18: estimate_usage returns usage_ratio = 1.0 whenever max_context_chars  *)
(* minus reserve_for_response is zero or negative, and needs_resume is then  *)
(* true for every usage_threshold of at most 1.0                             *)
C18_RatioOneWhenBudgetNotPositive ==
    (/\ ctx.phase = "estimated"
     /\ ctx.config.max_context_chars - ctx.config.reserve_for_response <= 0) =>
        /\ ctx.usage.usage_ratio = <<1, 1>>
        /\ ctx.config.usage_threshold <= 100 => ctx.usage.needs_resume

(* C19: a call of allow_path made after the sandbox has been activated       *)
(* leaves the allowed paths unchanged, and what the active sandbox grants    *)
(* never changes and holds only extra paths registered before activation     *)
C19_AllowPathAfterActivationIgnored ==
    [][ sandbox.active_ =>
          /\ sandbox'.extra_allowed_paths_ = sandbox.extra_allowed_paths_
          /\ sandbox'.ruleset = sandbox.ruleset
          /\ (sandbox'.ruleset \cap ExtraDirs)
               \subseteq Range(sandbox'.extra_allowed_paths_) ]_vars

(* allow_path was called on the active sandbox with a path that was not      *)
(* registered before, and one path had been registered before activation     *)
C19_Witness ==
    /\ sandbox.active_
    /\ sandbox.last_call = "allow_path"
    /\ sandbox.last_path \notin Range(sandbox.extra_allowed_paths_)
    /\ Len(sandbox.extra_allowed_paths_) = 1

(* the place p denotes lies in dir or below it                               *)
Under(path, dir) == HasPrefix(path, dir) /\ AtBoundary(path, dir)

(* C20: in every sandbox state is_path_allowed(p) is true if and only if p,  *)
(* after path resolution, lies under one of the directories the activation   *)
(* ruleset grants (base directory, system directories, /tmp, extra paths)    *)
C20_AllowedIffUnderGrantedDirectory ==
    sandbox.last_call = "is_path_allowed" =>
        (sandbox.last_result <=>
           \E dir \in sandbox.ruleset : Under(sandbox.last_path.resolved, dir))

EventsAt(names) == { i \in 1..Len(app.events) : app.events[i] \in names }

LibraryLoads == EventsAt({"dlopen"})
SandboxInits == EventsAt({"sandbox_init", "sandbox_init_failed"})
SandboxActivations == EventsAt({"sandbox_activate", "sandbox_activate_failed"})

(* C21 as stated: during start-up every load of a plugin's shared library    *)
(* comes after the sandbox init phase and after its activate phase           *)
C21_SandboxBeforePluginLoad_Original ==
    \A i \in LibraryLoads :
        /\ \E j \in SandboxInits : j < i
        /\ \E k \in SandboxActivations : k < i

(* C21 amended: during start-up every plugin's shared library is loaded      *)
(* before the sandbox init phase, the init phase runs before the activate    *)
(* phase, and so the sandbox is activated only after every library load      *)
C21_PluginLoadBeforeSandbox ==
    /\ \A i \in LibraryLoads : \A j \in SandboxInits \cup SandboxActivations : i < j
    /\ \A j \in SandboxInits : \A k \in SandboxActivations : j < k
    /\ app.sandbox_active => (SandboxInits # {} /\ app.pc = "verify")

(* start-up has loaded two libraries, initialized and activated the sandbox  *)
C21_Witness ==
    /\ app.pc = "verify"
    /\ app.sandbox_active
    /\ Cardinality(LibraryLoads) = 2
    /\ app.events[Len(app.events) - 1] = "sandbox_init"

(* ------------------------------------------------------------------------ *)
(* Content chunker                                                          *)
(* ------------------------------------------------------------------------ *)
Ceil(n, d) == IF n % d = 0 THEN n \div d ELSE n \div d + 1

Stored(id) == id \in DOMAIN chunker.storage_

(* the id the last store call or chunking format_tool_result call returned   *)
LastStoredId == chunker.next_id_ - 1

JustStored ==
    /\ ~chunker.crashed
    /\ \/ chunker.last_call = "store"
       \/ chunker.last_call = "format_tool_result" /\ chunker.body.chunked

(* C22: every store call returns, keeps the content unmodified under a       *)
(* chunk size > 0 (also when called with chunk_size = 0 or empty content),   *)
(* total_chunks = ceil(|content| / chunk_size), and get_chunk(id, i) for     *)
(* i < total_chunks holds content[i*chunk_size, min((i+1)*chunk_size, n))    *)
C22_ChunksAreConsecutiveSlices ==
    /\ ~chunker.crashed
    /\ JustStored =>
         chunker.storage_[LastStoredId].full_content = chunker.last_args[1]
    /\ \A id \in DOMAIN chunker.storage_ :
         LET cc == chunker.storage_[id]
         IN /\ cc.chunk_size > 0
            /\ cc.total_chunks = Ceil(cc.full_content, cc.chunk_size)
    /\ (/\ chunker.last_call = "get_chunk"
        /\ Stored(chunker.last_args[1])
        /\ chunker.last_args[2] < chunker.storage_[chunker.last_args[1]].total_chunks)
       => LET cc == chunker.storage_[chunker.last_args[1]]
              i == chunker.last_args[2]
          IN chunker.last_chunk =
               [error |-> "", start |-> i * cc.chunk_size,
                len |-> Min((i + 1) * cc.chunk_size, cc.full_content)
                          - i * cc.chunk_size]

(* C23: the ids store hands out carry strictly increasing numbers, so no id  *)
(* is handed out twice, also after remove(id) or clear()                     *)
C23_IdsStrictlyIncrease ==
    \A i, j \in 1..Len(chunker.issued) :
        i < j => chunker.issued[i] < chunker.issued[j]

(* a second id handed out after the first one was removed or cleared away    *)
C23_Witness ==
    /\ chunker.last_call = "store"
    /\ Len(chunker.issued) = 2
    /\ ~Stored(chunker.issued[1])
    /\ Stored(chunker.issued[2])

(* format_tool_result was just called on a successful 500-character output   *)
(* with max_tool_result_size = 100 and auto-chunking enabled                 *)
Formatted500Over100 ==
    /\ chunker.last_call = "format_tool_result"
    /\ chunker.last_args[1] = 500
    /\ chunker.config.max_tool_result_size = 100
    /\ chunker.config.auto_chunk_large_results

StoredWithZero ==
    /\ chunker.last_call \in {"store", "format_tool_result"}
    /\ chunker.last_args[2] = 0
    /\ chunker.last_call = "format_tool_result" =>
         /\ chunker.config.auto_chunk_large_results
         /\ chunker.last_args[1] > chunker.config.max_tool_result_size

(* C25: a store call with chunk_size = 0 stores the content under the agent  *)
(* configuration's effective chunk size: the configured chunk size when one  *)
(* is set, and 8000 when none is                                             *)
C25_ZeroMeansConfiguredDefault ==
    StoredWithZero =>
        /\ ~chunker.crashed
        /\ Stored(LastStoredId)
        /\ chunker.storage_[LastStoredId].chunk_size =
             effective_chunk_size(chunker.config)

(* ------------------------------------------------------------------------ *)
(* Tool-call text                                                           *)
(* ------------------------------------------------------------------------ *)
Parsed == parse.pc = "parsed"

ParsedCalls == SelectSeq(parse.scanned, LAMBDA e : e.kind = "call")

SkippedCandidates == SelectSeq(parse.scanned, LAMBDA e : e.kind = "skipped")

(* C26: for every adapter, a completion with native tool calls reaches the   *)
(* Agent as inline JSON invocations, and the Agent's parser recovers one     *)
(* valid call per native tool call, with the same name and arguments         *)
C26_NativeCallsRecovered ==
    (Parsed /\ parse.message.tool_calls # << >>) =>
        /\ Len(ParsedCalls) = Len(parse.message.tool_calls)
        /\ \A k \in 1..Len(ParsedCalls) :
             LET tc == parse.message.tool_calls[k]
             IN /\ ParsedCalls[k].tool_name = <<tc.name>>
                /\ ParsedCalls[k].valid
                /\ ParsedCalls[k].params = Compact(tc.arguments, 1, FALSE)
                /\ ParsedCalls[k].raw_content = openrouter_call(tc)

(* C27: a tool-call candidate that cannot be parsed even after the recovery  *)
(* passes is not dropped: it yields a call with valid = FALSE and a          *)
(* non-empty parse_error                                                     *)
C27_UnparsedCandidateYieldsInvalidCall ==
    Parsed =>
        /\ SkippedCandidates = << >>
        /\ \A k \in 1..Len(ParsedCalls) :
             ~ParsedCalls[k].valid => ParsedCalls[k].parse_error # ""

(* ------------------------------------------------------------------------ *)
(* Replies without tool calls, and the order of tool results                *)
(* ------------------------------------------------------------------------ *)
(* C29: a reply with no tool call and none of the intent phrases gets no     *)
(* goad turn: only the reply is appended to the history and the run ends     *)
(* successfully with that reply as the final response                        *)
C29_PlainReplyEndsRun ==
    [][(/\ pc = "loop"
        /\ chat_log' = Append(chat_log, "ok")
        /\ response'.calls = << >>
        /\ ~response'.intent)
       => /\ pc' = "done"
          /\ history' = push_back(history, AssistantReply)
          /\ result'.success
          /\ ~result'.paused
          /\ result'.error = ""
          /\ result'.final_response = "response"]_vars

(* a run that ended on a plain reply after an iteration with tool calls      *)
C29_Witness ==
    /\ Done
    /\ result.success
    /\ result.final_response = "response"
    /\ response.read /\ response.calls = << >> /\ ~response.intent
    /\ result.iterations = 2
    /\ result.tool_calls_made > 0
    /\ history[Len(history)] = AssistantReply

(* the body of the result block a call with the given outcome gets           *)
BodyOf(outcome) ==
    CASE outcome = "executed" -> "formatted"
      [] outcome = "duplicate_in_response" -> "duplicate"
      [] outcome = "previous_iteration" -> "already_made"

RECURSIVE ExecutedInOrder(_, _, _)
(* the calls of cs whose outcome is executed, in the order of cs             *)
ExecutedInOrder(cs, outs, i) ==
    IF i > Len(cs) THEN << >>
    ELSE (IF outs[i] = "executed" THEN <<cs[i]>> ELSE << >>)
         \o ExecutedInOrder(cs, outs, i + 1)

(* C28: within one iteration the tools are executed in the order of their    *)
(* calls in the reply, and the tool-results turn lists one result per parsed *)
(* call, executed or synthetic, in that same order                           *)
C28_ResultsInCallOrder ==
    /\ Len(outcomes) = Len(calls)
    /\ Len(tool_results.results) = Len(calls)
    /\ \A i \in 1..Len(calls) :
         /\ tool_results.results[i].tool_name = calls[i].tool_name
         /\ tool_results.results[i].body = BodyOf(outcomes[i])
    /\ tool_results.executed = ExecutedInOrder(calls, outcomes, 1)

(* a reply with two different calls, the second of them a duplicate of one   *)
(* made in the previous iteration                                            *)
C28_Witness ==
    /\ Len(calls) = 2
    /\ calls[1].tool_name # calls[2].tool_name
    /\ outcomes = <<"executed", "previous_iteration">>
    /\ tool_results.executed = <<calls[1]>>
    /\ Len(tool_results.results) = 2

(* ------------------------------------------------------------------------ *)
(* Memory entry store                                                       *)
(* ------------------------------------------------------------------------ *)
(* a get of the id of the entry that the step before saved                   *)
GetAfterSave ==
    /\ memory.last_call = "upsert"
    /\ memory.returned
    /\ memory'.last_call = "get"
    /\ memory'.last_id = memory.last_entry.id

Listed == tasks.last_call = "list"

(* the place of a task in the claimed order: its due date, or past every     *)
(* due date when it has none                                                 *)
EffectiveDue(t) == IF t.due_at > 0 THEN t.due_at ELSE 1000000

(* C31 as stated: a listing holds the tasks with a due date first, by        *)
(* ascending due_at, then the tasks without one, and tasks with the same     *)
(* due date by descending created_at.                                        *)
C31_DatedFirstCreatedDesc_Original ==
    Listed =>
      \A i, j \in DOMAIN tasks.listed :
        i < j =>
          \/ EffectiveDue(tasks.listed[i]) < EffectiveDue(tasks.listed[j])
          \/ /\ EffectiveDue(tasks.listed[i]) = EffectiveDue(tasks.listed[j])
             /\ tasks.listed[i].created_at >= tasks.listed[j].created_at


(* ---- C32 ---------------------------------------------------------------- *)
ChattedAgain == ctx.phase = "chatted_again"

(* the history the first call's cycle rebuilt, with the two turns the run    *)
(* added after that call                                                     *)
RebuiltAndAppended == ctx.previous.rebuilt \o ctx.previous.appended

(* C32: when the resume cycle of one model call of a run succeeded, the      *)
(* next model call of the run is made on the rebuilt history, and it starts  *)
(* no new resume cycle unless the usage of that history is back above the    *)
(* threshold.                                                                *)
C32_NextCallOnRebuiltHistory ==
    (ChattedAgain /\ ctx.previous.resumed) =>
        /\ ctx.history = RebuiltAndAppended
        /\ ~needs_resume(ctx.config, RebuiltAndAppended, ctx.system_prompt)
              => ctx.outcome.cycles = 0


(* ---- C34 ---------------------------------------------------------------- *)
NoCallSucceeded == chat_log # << >> /\ Count(chat_log, {"ok"}) = 0

(* C34: a run that ends paused made at least one successful model call, and  *)
(* a run whose model calls all failed ends as a failure with the history it  *)
(* was given, not as a pause.                                                *)
C34_PauseNeedsSuccessfulCall ==
    /\ Paused => Count(chat_log, {"ok"}) >= 1
    /\ (Done /\ NoCallSucceeded) => (Failed /\ history = history_before)


(* ---- C35 ---------------------------------------------------------------- *)
LastSuccessfulCall == LastIndexOf(chat_log, {"ok"})

(* this step is a successful reply that follows an earlier successful reply  *)
(* of the run with nothing but failed model calls in between                 *)
ReplyAfterFailedCalls ==
    /\ chat_log' = Append(chat_log, "ok")
    /\ LastSuccessfulCall > 0
    /\ LastSuccessfulCall < Len(chat_log)

(* C35: when a successful reply repeats a (tool, args) call that the last    *)
(* successful reply before it had executed, and only failed model calls lie  *)
(* between the two replies, the repeated call is not executed.               *)
C35_FailedCallKeepsSuppression ==
    [][ReplyAfterFailedCalls =>
          \A i \in DOMAIN calls' :
            (/\ dedup_key(calls'[i]) \in DOMAIN recent_tool_calls
             /\ recent_tool_calls[dedup_key(calls'[i])] = LastSuccessfulCall)
              => outcomes'[i] # "executed"]_vars


(* ---- C36 ---------------------------------------------------------------- *)
FormattedInRun ==
    /\ chunker.last_call = "format_tool_result"
    /\ ~chunker.crashed

(* C36: whether a tool result of a run is chunked is decided by the          *)
(* auto_chunk_large_results and max_tool_result_size of the configuration    *)
(* the run was given.                                                        *)
C36_ChunkingFollowsRunConfig ==
    FormattedInRun =>
        (chunker.body.chunked <=>
            /\ chunker.last_args[3].auto_chunk_large_results
            /\ chunker.last_args[1] > chunker.last_args[3].max_tool_result_size)


(* ---- C40 ---------------------------------------------------------------- *)
ActivateStep == sandbox'.last_call = "activate"

(* C40: an active sandbox stays active with the ruleset it enforces; a       *)
(* further activate call returns true and creates no ruleset; an activate    *)
(* call that fails leaves the sandbox inactive.                              *)
C40_ActiveForGood ==
    [][/\ sandbox.active_ =>
            /\ sandbox'.active_
            /\ sandbox'.ruleset = sandbox.ruleset
            /\ ActivateStep => (sandbox'.last_result /\ ~sandbox'.built)
       /\ (~sandbox.active_ /\ ActivateStep /\ ~sandbox'.last_result) =>
            (~sandbox'.active_ /\ sandbox'.ruleset = {})]_vars

(* an activate call on the sandbox that was already active has returned     *)
(* true without creating a ruleset                                           *)
C40_Witness ==
    /\ sandbox.active_
    /\ sandbox.last_call = "activate"
    /\ sandbox.last_result
    /\ ~sandbox.built
    /\ sandbox.ruleset # {}


(* ---- C33 ---------------------------------------------------------------- *)
ContinuationCallsModel == session.pc = "continue_run" /\ pc = "loop"

(* C33: the history a continued run hands to the model has no two            *)
(* consecutive messages of the same role: the continuation message does not  *)
(* follow a user turn directly.                                              *)
C33_ContinuationKeepsAlternation ==
    ContinuationCallsModel => Alternates(history)

(* ---- C37 ---------------------------------------------------------------- *)
ContinueRanAgent ==
    session.pc = "idle" /\ session.last_command = "continue" /\ session.ran

MarkedPaused == "agent_paused" \in session.data

(* C37: after a /continue that ran the agent, the session is marked paused   *)
(* exactly when the continued run returned paused, so not after a completed  *)
(* or failed continuation; after /cancel it is not marked paused.            *)
C37_PausedIffRunPaused ==
    /\ ContinueRanAgent => (MarkedPaused <=> result.paused)
    /\ (ContinueRanAgent /\ session.reply \in {"completed", "failed"})
          => ~MarkedPaused
    /\ (session.pc = "idle" /\ session.last_command = "cancel") => ~MarkedPaused

(* a continuation with a budget of one iteration has paused again            *)
C37_Witness ==
    /\ ContinueRanAgent
    /\ MarkedPaused
    /\ result.paused
    /\ result.iterations = 1
    /\ session.reply = "paused"

(* ---- C38 ---------------------------------------------------------------- *)
(* C38: after /new the session holds no pending pause, and a continued run   *)
(* never starts on a history that was cleared after the pause (a paused run  *)
(* leaves at least its own user message in the history).                     *)
C38_NewEndsPause ==
    /\ (session.pc = "idle" /\ session.last_command = "new") => ~MarkedPaused
    /\ session.pc = "continue_run" => history_before # << >>

(* ---- C39 ---------------------------------------------------------------- *)
(* C39: a run started by /continue has a budget between 1 and 999, every     *)
(* pass of its loop uses up one iteration of the budget, and it never makes  *)
(* more iterations than the budget: the run returns after at most 999 model  *)
(* calls.                                                                    *)
C39_ContinueBudgetBounded ==
    [][session'.pc = "continue_run" =>
          /\ config'.max_iterations \in 1..999
          /\ result'.iterations <= config'.max_iterations
          /\ (session.pc = "continue_run" /\ pc = "loop") =>
                /\ result'.iterations = result.iterations + 1
                /\ pc' \in {"loop", "done"}
          /\ (pc' = "done" /\ ~result'.paused /\ pc = "loop") =>
                (result'.success \/ result'.error # "")]_vars

(* a run continued with a number above the limit is in its third iteration   *)
C39_Witness ==
    /\ session.pc = "continue_run"
    /\ config.max_iterations = 999
    /\ pc = "loop"
    /\ result.iterations = 2

====
